---- MODULE Spec2Model ----
(***************************************************************************)
(* Verification model of the compute-dispatch fabric: the kernel's         *)
(* prioritised task queue and worker loop, the recovery manager, the load  *)
(* balancer, the dynamic cache and the preload manager.                    *)
(*                                                                         *)
(* Each component has its own specification (SpecKernel, SpecRecovery,     *)
(* SpecBalancer, SpecLRU, SpecTTL, SpecPreload, SpecPool; SpecControl and  *)
(* SpecShutdown for the kernel's control operations); the variables of the *)
(* other components stay at their initial values.                          *)
(***************************************************************************)
EXTENDS Integers, Sequences, FiniteSets, TLC

(***************************************************************************)
(* Bounds of the model.                                                    *)
(***************************************************************************)
MaxTasks == 4
MaxThreads == 1
MaxCancels == 1
MaxCtlTasks == 2
MaxPoints == 2
MaxStateLen == 2
MaxRestores == 1
MaxKernels == 2
MaxBatch == 2
MaxDecisions == 2
MaxCapacity == 4
MaxTime == 3
MaxQueue == 2
MaxPoolTasks == 3
MaxPoolQueue == 2
MaxSyncCapacity == 2
MaxOrkTasks == 3
MaxOrkKernels == 2
MaxProcessors == 3
MaxPreloadEntries == 3
MaxCmEntries == 2

VARIABLES
    \* ---- CoreKernel ----
    running,      \* pImpl->running
    taskQueue,    \* pImpl->taskQueue: the heap array of std::priority_queue
    numThreads,   \* std::thread::hardware_concurrency()
    wpc,          \* position of each worker thread in its loop
    wtask,        \* the task a worker has popped and is executing
    prio,         \* history: priority of task i, tasks numbered in enqueue order
    startLog,     \* history: for each start, the task and the queue it was taken from
    finished,     \* history: tasks whose closure returned
    paused,       \* pImpl->paused
    cancelledTasks,  \* pImpl->cancelledTasks: the ids given to cancelTask
    kpc,          \* position of the thread that calls initialize, shutdown and reset
    lastCtl,      \* history: the last of these calls that returned
    cancelledQueued,  \* history: tasks that were queued when a cancelTask naming them returned
    \* ---- RecoveryManager ----
    enableStateValidation,  \* pImpl->config.enableStateValidation
    enableCompression,      \* pImpl->config.pointConfig.enableCompression
    appState,     \* the bytes the state-capture callback returns when called
    files,        \* {storagePath}/{id}.json: the record stored for each id
    errorCount,   \* number of calls of the error callback
    successfulRecoveries,   \* pImpl->metrics.successfulRecoveries
    maxRecoveryPoints,  \* pImpl->config.maxRecoveryPoints
    recoveryPoints,     \* pImpl->recoveryPoints: the ids in the in-memory table
    saving,       \* the record saveCheckpoint has opened a file for and not yet written
    lastOp,       \* history: the last recovery operation and what it did
    \* ---- LoadBalancer ----
    strategy,     \* strategy name, as the string getter reports it
    strategyEnum, \* BalancingStrategy
    weights,      \* cpuWeight_, memoryWeight_, networkWeight_, energyWeight_ (1/100)
    thresholds,   \* resourceThreshold_, workloadThreshold_ (1/100)
    decisions,    \* resourceAwareDecisions_, workloadSpecificDecisions_, totalDecisions_
    lastCall,     \* history: the last call of the balancer and what it dispatched
    \* ---- DynamicCache ----
    allocatedSize_,  \* capacity, in entries
    defaultTTL_,  \* the TTL of put(key, value)
    cache_,       \* key -> Entry (data, lastAccess, ttlSeconds)
    lruList_,     \* keys, most recently used first
    now,          \* Clock::now(), in seconds
    recency,      \* history: every key put or got so far, most recent first
    putInfo,      \* history: time and TTL of the last put of each key
    lastGet,      \* history: the last get and its result (none since a put or a tick)
    \* ---- PreloadManager and the kernel's warm-up ----
    pendingTasks, \* pImpl->tasks of the preload manager: the queue of PreloadTask (key, data)
    stopFlag,     \* pImpl->stop
    \* ---- ThreadPool and ParentKernel ----
    tpTasks,      \* pImpl->tasks of the thread pool: the FIFO queue of closures
    tpStop,       \* pImpl->stop of the thread pool
    tpQueueSize,  \* pImpl->config.queueSize
    tpWorker,     \* position of each thread of pImpl->workers in processTasks
    tpCtl,        \* position of the thread that calls stop and setConfiguration
    tpCount,      \* history: number of closures enqueued so far (closures are numbered)
    tpStarted,    \* history: the closures a worker has popped in order to call them
    tpQueuedAtStop,  \* history: the closures that were queued when stop was marked
    tpLast,       \* history: the last call of the pool that returned, and how
    parentHeld,   \* the components ParentKernel holds a non-null pointer to
    activeThreads,  \* pImpl->activeThreads of the thread pool
    wfc,          \* position of the thread that calls waitForCompletion
    ppc,          \* position of the task processor thread
    ptask,        \* the task the processor has taken from the queue
    accessHistory,  \* pImpl->accessHistory
    wpos,         \* position of warmupFromPreload
    wkeys,        \* the keys warmupFromPreload still has to load
    given,        \* history: the payload accepted for each key
    wgiven,       \* history: given, as it was when the warm-up started
    \* ---- two caches and the threads that sync and migrate them ----
    caches,       \* per cache: allocatedSize_, cache_, lruList_
    mutex_,       \* per cache: the thread that holds mutex_ exclusively, or NoThread
    syncOp,       \* per thread: the operation it is in, and its position
    lastSync,     \* history: the last cache operation that returned
    \* ---- processTask ----
    kernelClass,  \* the class of the kernel: CoreKernel or MicroKernel
    ptRunning,    \* pImpl->running
    taskCallback_,  \* whether a TaskCallback is installed
    kernelMutex,  \* the function that holds kernelMutex exclusively, or "free"
    ptPc,         \* position of the thread that calls processTask
    ptTask,       \* the descriptor processTask was called with
    callbackLog,  \* history: the descriptors taskCallback_ was invoked with in this call
    ptResult,     \* what processTask returned
    eventLog,     \* history: the events notified in this call
    \* ---- event callbacks ----
    kernelId,     \* the id the kernel was constructed with
    eventCallbacks_,  \* the events that have a handler in eventCallbacks_
    handlerCalls,  \* history: the arguments of the handler calls of the last triggerEvent
    lastTrigger,  \* history: the arguments of the last triggerEvent
    \* ---- OrchestrationKernel ----
    taskDescriptors,  \* the local descriptor list
    orkLoadBalancer,  \* whether the loadBalancer pointer is non-null
    orkState,     \* "live", or where undefined behaviour has ended the process
    orkCount,     \* history: number of descriptors enqueued so far (descriptors are numbered)
    scheduledOnKernel,  \* history: the descriptors some kernel's scheduleTask was called with
    lastOrk,      \* history: the last call of the orchestrator that returned, and what it did
    \* ---- the locks around the kernel's task queue ----
    qShared,      \* the threads that hold kernelMutex in a std::shared_lock
    qUnique,      \* the thread that holds kernelMutex in a std::unique_lock, or "none"
    qTaskLock,    \* the thread that holds the workers' lock, or "none"
    qPc,          \* per thread: the function it is in, and its position
    qAccess,      \* the threads that are reading or writing pImpl->taskQueue
    qJoined,      \* whether the worker thread has been joined
    \* ---- PreloadManager: the threads initialize starts ----
    processors,   \* per thread slot: "none", or the position of the processor thread in it
    plTasks,      \* pImpl->tasks, as the numbers of the entries queued
    plStop,       \* pImpl->stop
    plCount,      \* history: number of entries queued so far (entries are numbered)
    plTaken,      \* history: per entry, the threads that popped it
    \* ---- CacheManager ----
    initialized,  \* CacheManager::initialized
    entries,      \* the keys of pImpl->entries
    cacheMutex,   \* the public function that holds pImpl->cacheMutex, or "free"
    cmPc,         \* "idle", or "blocked" once the calling thread waits for itself
    cmLast        \* history: the last call that returned, its result, whether it locked again

kvars == <<running, taskQueue, numThreads, wpc, wtask, prio, startLog, finished,
           paused, cancelledTasks, kpc, lastCtl, cancelledQueued>>

rvars == <<enableStateValidation, enableCompression, appState, files,
           errorCount, successfulRecoveries, maxRecoveryPoints, recoveryPoints,
           saving, lastOp>>

bvars == <<strategy, strategyEnum, weights, thresholds, decisions, lastCall>>

cvars == <<allocatedSize_, defaultTTL_, cache_, lruList_, now, recency, putInfo, lastGet>>

pvars == <<pendingTasks, stopFlag, ppc, ptask, accessHistory, wpos, wkeys, given, wgiven>>

tvars == <<tpTasks, tpStop, tpQueueSize, tpWorker, tpCtl, tpCount, tpStarted,
           tpQueuedAtStop, tpLast, parentHeld, activeThreads, wfc>>

svars == <<caches, mutex_, syncOp, lastSync>>

xvars == <<kernelClass, ptRunning, taskCallback_, kernelMutex, ptPc, ptTask,
           callbackLog, ptResult, eventLog>>

evars == <<kernelId, eventCallbacks_, handlerCalls, lastTrigger>>

ovars == <<taskDescriptors, orkLoadBalancer, orkState, orkCount, scheduledOnKernel, lastOrk>>

qvars == <<qShared, qUnique, qTaskLock, qPc, qAccess, qJoined>>

lvars == <<processors, plTasks, plStop, plCount, plTaken>>

mvars == <<initialized, entries, cacheMutex, cmPc, cmLast>>

vars == <<kvars, rvars, bvars, cvars, pvars, tvars, svars, xvars, evars, ovars, qvars, lvars, mvars>>

\* the variables of the other components, for each component
others_k == <<rvars, bvars, cvars, pvars, tvars, svars, xvars, evars, ovars, qvars, lvars, mvars>>
others_r == <<kvars, bvars, cvars, pvars, tvars, svars, xvars, evars, ovars, qvars, lvars, mvars>>
others_b == <<kvars, rvars, cvars, pvars, tvars, svars, xvars, evars, ovars, qvars, lvars, mvars>>
others_c == <<kvars, rvars, bvars, pvars, tvars, svars, xvars, evars, ovars, qvars, lvars, mvars>>
others_p == <<kvars, rvars, bvars, tvars, svars, xvars, evars, ovars, qvars, lvars, mvars>>
others_t == <<kvars, rvars, bvars, cvars, pvars, svars, xvars, evars, ovars, qvars, lvars, mvars>>
others_s == <<kvars, rvars, bvars, cvars, pvars, tvars, xvars, evars, ovars, qvars, lvars, mvars>>
others_x == <<kvars, rvars, bvars, cvars, pvars, tvars, svars, evars, ovars, qvars, lvars, mvars>>
others_e == <<kvars, rvars, bvars, cvars, pvars, tvars, svars, xvars, ovars, qvars, lvars, mvars>>
others_o == <<kvars, rvars, bvars, cvars, pvars, tvars, svars, xvars, evars, qvars, lvars, mvars>>
others_q == <<kvars, rvars, bvars, cvars, pvars, tvars, svars, xvars, evars, ovars, lvars, mvars>>
others_l == <<kvars, rvars, bvars, cvars, pvars, tvars, svars, xvars, evars, ovars, qvars, mvars>>
others_m == <<kvars, rvars, bvars, cvars, pvars, tvars, svars, xvars, evars, ovars, qvars, lvars>>

(***************************************************************************)
(* Generic helpers.                                                        *)
(***************************************************************************)
Range(s) == {s[i] : i \in 1..Len(s)}

SetMax(S) == CHOOSE x \in S : \A y \in S : y <= x

(***************************************************************************)
(* CoreKernel: std::priority_queue<std::pair<int, std::function<void()>>>  *)
(*                                                                         *)
(* The queue is a binary heap kept in a vector by std::push_heap and       *)
(* std::pop_heap (libstdc++ algorithms, indices 0-based in the source and  *)
(* shifted by one here).  The elements are ordered by std::less on the     *)
(* pair: the priority decides; the closure has no order of its own, so two *)
(* elements of equal priority compare as equivalent.  There is no enqueue  *)
(* timestamp in the element.                                                *)
(***************************************************************************)
PriorityOnlyLess(a, b) == a.priority < b.priority

\* a comparison that orders the heap the other way round (lowest first)
TaskLessReversed(a, b) == a.priority > b.priority

\* comparison used by the heap: std::less<std::pair<int, closure>>
TaskLess(a, b) == PriorityOnlyLess(a, b)

\* std::__push_heap(first, holeIndex, topIndex = 0, value)
RECURSIVE PushHeapAt(_, _, _)
PushHeapAt(h, hole, v) ==
    LET parent == (hole - 1) \div 2 IN
    IF hole > 0 /\ TaskLess(h[parent + 1], v)
    THEN PushHeapAt([h EXCEPT ![hole + 1] = h[parent + 1]], parent, v)
    ELSE [h EXCEPT ![hole + 1] = v]

\* priority_queue::push: c.push_back(x); std::push_heap(c.begin(), c.end())
HeapPush(h, v) == PushHeapAt(Append(h, v), Len(h), v)

\* the while loop of std::__adjust_heap: move the hole down to a leaf
RECURSIVE SiftHole(_, _, _)
SiftHole(h, hole, len) ==
    IF hole < (len - 1) \div 2
    THEN LET right == 2 * (hole + 1)
             child == IF TaskLess(h[right + 1], h[right]) THEN right - 1 ELSE right
         IN SiftHole([h EXCEPT ![hole + 1] = h[child + 1]], child, len)
    ELSE <<h, hole>>

\* std::__adjust_heap(first, holeIndex = 0, len, value)
AdjustHeap(h, len, v) ==
    LET s == SiftHole(h, 0, len)
        h1 == s[1]
        hole1 == s[2]
        lone == (len % 2 = 0) /\ hole1 = (len - 2) \div 2
        h2 == IF lone THEN [h1 EXCEPT ![hole1 + 1] = h1[2 * (hole1 + 1)]] ELSE h1
        hole2 == IF lone THEN 2 * (hole1 + 1) - 1 ELSE hole1
    IN PushHeapAt(h2, hole2, v)

\* priority_queue::pop: std::pop_heap(c.begin(), c.end()); c.pop_back()
HeapPop(h) ==
    LET n == Len(h) IN
    IF n <= 1 THEN <<>>
    ELSE SubSeq(AdjustHeap(h, n - 1, h[n]), 1, n - 1)

\* priority_queue::top
HeapTop(h) == h[1]

Priorities == {1, 5, 9}
Workers == 1..MaxThreads

QueuedIds(h) == {h[i].id : i \in 1..Len(h)}

(***************************************************************************)
(* CoreKernel operations.                                                  *)
(***************************************************************************)
KernelIdle ==
    /\ running = FALSE
    /\ taskQueue = <<>>
    /\ numThreads = 1
    /\ wpc = [w \in Workers |-> "none"]
    /\ wtask = [w \in Workers |-> 0]
    /\ prio = <<>>
    /\ startLog = <<>>
    /\ finished = {}
    /\ paused = FALSE
    /\ cancelledTasks = {}
    /\ kpc = "idle"
    /\ lastCtl = "none"
    /\ cancelledQueued = {}

KernelInit ==
    /\ running = FALSE
    /\ taskQueue = <<>>
    /\ numThreads \in 1..MaxThreads
    /\ wpc = [w \in Workers |-> "none"]
    /\ wtask = [w \in Workers |-> 0]
    /\ prio = <<>>
    /\ startLog = <<>>
    /\ finished = {}
    /\ paused = FALSE
    /\ cancelledTasks = {}
    /\ kpc = "idle"
    /\ lastCtl = "none"
    /\ cancelledQueued = {}

\* CoreKernel::initialize, first half: initializeComponents() ->
\* startWorkerThreads() creates the threads while running is still false
initializeComponents ==
    /\ kpc = "idle"
    /\ ~running
    /\ \A w \in Workers : wpc[w] \in {"none", "exited"}
    /\ wpc' = [w \in Workers |-> IF w <= numThreads THEN "check" ELSE "none"]
    /\ kpc' = "initialize"
    /\ UNCHANGED <<running, taskQueue, numThreads, wtask, prio, startLog, finished,
                   paused, cancelledTasks, lastCtl, cancelledQueued>>
    /\ UNCHANGED others_k

\* CoreKernel::initialize, second half: pImpl->running = true
initialize ==
    /\ kpc = "initialize"
    /\ running' = TRUE
    /\ kpc' = "idle"
    /\ lastCtl' = "initialize"
    /\ UNCHANGED <<taskQueue, numThreads, wpc, wtask, prio, startLog, finished,
                   paused, cancelledTasks, cancelledQueued>>
    /\ UNCHANGED others_k

\* taskCondition.notify_one(): one of the threads blocked in the wait, if
\* there is one, is woken and will test the predicate again
NotifyOne(pcs) ==
    IF \E w \in Workers : pcs[w] = "asleep"
    THEN {[pcs EXCEPT ![w] = "wait"] : w \in {x \in Workers : pcs[x] = "asleep"}}
    ELSE {pcs}

\* taskCondition.notify_all()
NotifyAll(pcs) == [w \in Workers |-> IF pcs[w] = "asleep" THEN "wait" ELSE pcs[w]]

\* CoreKernel::scheduleTask(task, priority)
scheduleTask(p) ==
    /\ kpc # "reset"
    /\ Len(prio) < MaxTasks
    /\ running
    /\ prio' = Append(prio, p)
    /\ taskQueue' = HeapPush(taskQueue, [priority |-> p, id |-> Len(prio) + 1])
    /\ wpc' \in NotifyOne(wpc)
    /\ UNCHANGED <<running, numThreads, wtask, startLog, finished,
                   paused, cancelledTasks, kpc, lastCtl, cancelledQueued>>
    /\ UNCHANGED others_k

\* scheduleTask on a kernel that is not running: warning, nothing queued
scheduleTaskStopped ==
    /\ kpc # "reset"
    /\ ~running
    /\ UNCHANGED kvars
    /\ UNCHANGED others_k

\* worker thread: the loop test while (pImpl->running)
WorkerCheck(w) ==
    /\ wpc[w] = "check"
    /\ wpc' = [wpc EXCEPT ![w] = IF running THEN "wait" ELSE "exited"]
    /\ UNCHANGED <<running, taskQueue, numThreads, wtask, prio, startLog, finished,
                   paused, cancelledTasks, kpc, lastCtl, cancelledQueued>>
    /\ UNCHANGED others_k

\* the id the worker tests against cancelledTasks: the address of the
\* closure it holds, its own local variable
LocalAddress(w) == 0 - w

\* worker thread, holding the lock of the wait: the predicate
\* (!running || !taskQueue.empty()) is false and the thread is about to block
WorkerDoze(w) ==
    /\ wpc[w] = "wait"
    /\ running /\ taskQueue = <<>>
    /\ wpc' = [wpc EXCEPT ![w] = "dozing"]
    /\ UNCHANGED <<running, taskQueue, numThreads, wtask, prio, startLog, finished,
                   paused, cancelledTasks, kpc, lastCtl, cancelledQueued>>
    /\ UNCHANGED others_k

\* worker thread: blocked in the condition variable until it is notified
WorkerSleep(w) ==
    /\ wpc[w] = "dozing"
    /\ wpc' = [wpc EXCEPT ![w] = "asleep"]
    /\ UNCHANGED <<running, taskQueue, numThreads, wtask, prio, startLog, finished,
                   paused, cancelledTasks, kpc, lastCtl, cancelledQueued>>
    /\ UNCHANGED others_k

\* worker thread: the predicate of the wait holds (stop or a task is
\* queued), then either the thread returns or it pops the top of the queue
\* and, unless its id is cancelled, calls the task
WorkerTake(w) ==
    /\ wpc[w] = "wait"
    /\ ~running \/ taskQueue # <<>>
    /\ IF ~running /\ taskQueue = <<>>
       THEN /\ wpc' = [wpc EXCEPT ![w] = "exited"]
            /\ UNCHANGED <<taskQueue, wtask, startLog>>
       ELSE IF LocalAddress(w) \in cancelledTasks
       THEN /\ wpc' = [wpc EXCEPT ![w] = "check"]
            /\ taskQueue' = HeapPop(taskQueue)
            /\ UNCHANGED <<wtask, startLog>>
       ELSE /\ wpc' = [wpc EXCEPT ![w] = "run"]
            /\ wtask' = [wtask EXCEPT ![w] = HeapTop(taskQueue).id]
            /\ taskQueue' = HeapPop(taskQueue)
            /\ startLog' = Append(startLog,
                   [id |-> HeapTop(taskQueue).id, queued |-> QueuedIds(taskQueue),
                    paused |-> paused])
    /\ UNCHANGED <<running, numThreads, prio, finished,
                   paused, cancelledTasks, kpc, lastCtl, cancelledQueued>>
    /\ UNCHANGED others_k

\* worker thread: task() returns, back to the loop test
WorkerDone(w) ==
    /\ wpc[w] = "run"
    /\ wpc' = [wpc EXCEPT ![w] = "check"]
    /\ wtask' = [wtask EXCEPT ![w] = 0]
    /\ finished' = finished \cup {wtask[w]}
    /\ UNCHANGED <<running, taskQueue, numThreads, prio, startLog,
                   paused, cancelledTasks, kpc, lastCtl, cancelledQueued>>
    /\ UNCHANGED others_k

\* the address of the closure at the top of the queue, the front element of
\* the vector: what cancelTask takes for the id of each queued task
FrontAddress == 0

\* the ids a caller may give to cancelTask: the number of a task it has
\* scheduled, or an address
CancelIds == (1..MaxTasks) \cup {FrontAddress} \cup {LocalAddress(w) : w \in Workers}

\* cancelTask: the queue rebuilt from the elements it keeps, in pop order
RECURSIVE RebuildQueue(_, _)
RebuildQueue(h, acc) ==
    IF h = <<>> THEN acc
    ELSE RebuildQueue(HeapPop(h), HeapPush(acc, HeapTop(h)))

\* CoreKernel::cancelTask(taskId)
cancelTask(taskId) ==
    /\ kpc # "reset"
    /\ Cardinality(cancelledTasks \cup {taskId}) <= MaxCancels
    /\ taskId \in 1..MaxTasks => taskId <= Len(prio)
    /\ cancelledTasks' = cancelledTasks \cup {taskId}
    /\ taskQueue' = IF FrontAddress \in cancelledTasks'
                    THEN <<>>
                    ELSE RebuildQueue(taskQueue, <<>>)
    /\ cancelledQueued' = cancelledQueued \cup
            (IF taskId = FrontAddress THEN QueuedIds(taskQueue)
             ELSE {taskId} \cap QueuedIds(taskQueue))
    /\ UNCHANGED <<running, numThreads, wpc, wtask, prio, startLog, finished,
                   paused, kpc, lastCtl>>
    /\ UNCHANGED others_k

\* CoreKernel::pause
pause ==
    /\ kpc # "reset"
    /\ ~paused
    /\ paused' = TRUE
    /\ UNCHANGED <<running, taskQueue, numThreads, wpc, wtask, prio, startLog, finished,
                   cancelledTasks, kpc, lastCtl, cancelledQueued>>
    /\ UNCHANGED others_k

\* CoreKernel::resume
resume ==
    /\ kpc # "reset"
    /\ paused
    /\ paused' = FALSE
    /\ UNCHANGED <<running, taskQueue, numThreads, wpc, wtask, prio, startLog, finished,
                   cancelledTasks, kpc, lastCtl, cancelledQueued>>
    /\ UNCHANGED others_k

KernelNext ==
    \/ initializeComponents
    \/ initialize
    \/ \E p \in Priorities : scheduleTask(p)
    \/ scheduleTaskStopped
    \/ \E w \in Workers : WorkerCheck(w)
    \/ \E w \in Workers : WorkerDoze(w)
    \/ \E w \in Workers : WorkerSleep(w)
    \/ \E w \in Workers : WorkerTake(w)
    \/ \E w \in Workers : WorkerDone(w)

\* every worker thread has returned, or there is none: the joins are over
AllJoined == \A w \in Workers : wpc[w] \in {"none", "exited"}

\* CoreKernel::shutdown on a running kernel, up to the joins of
\* stopWorkerThreads: running = false, notify_all
shutdown ==
    /\ kpc = "idle"
    /\ running
    /\ running' = FALSE
    /\ wpc' = NotifyAll(wpc)
    /\ kpc' = "shutdown"
    /\ UNCHANGED <<taskQueue, numThreads, wtask, prio, startLog, finished,
                   paused, cancelledTasks, lastCtl, cancelledQueued>>
    /\ UNCHANGED others_k

\* a shutdown without the test of running: the workers are stopped again
shutdownUnguarded ==
    /\ kpc = "idle"
    /\ ~running
    /\ wpc' = NotifyAll(wpc)
    /\ kpc' = "shutdown"
    /\ UNCHANGED <<running, taskQueue, numThreads, wtask, prio, startLog, finished,
                   paused, cancelledTasks, lastCtl, cancelledQueued>>
    /\ UNCHANGED others_k

\* CoreKernel::shutdown on a kernel that is not running: returns at once
shutdownStopped ==
    /\ kpc = "idle"
    /\ ~running
    /\ lastCtl' = "shutdownStopped"
    /\ UNCHANGED <<running, taskQueue, numThreads, wpc, wtask, prio, startLog, finished,
                   paused, cancelledTasks, kpc, cancelledQueued>>
    /\ UNCHANGED others_k

\* CoreKernel::shutdown, the rest: the threads are joined and forgotten,
\* shutdownComponents clears the queue, running = false (the kernel's cache,
\* which shutdown clears, holds nothing here)
shutdownComponents ==
    /\ kpc = "shutdown"
    /\ AllJoined
    /\ wpc' = [w \in Workers |-> "none"]
    /\ taskQueue' = <<>>
    /\ running' = FALSE
    /\ kpc' = "idle"
    /\ lastCtl' = "shutdown"
    /\ UNCHANGED <<numThreads, wtask, prio, startLog, finished,
                   paused, cancelledTasks, cancelledQueued>>
    /\ UNCHANGED others_k

\* CoreKernel::reset, up to the joins of stopWorkerThreads (reset holds the
\* kernel mutex exclusively, so no other call of the kernel runs meanwhile)
reset ==
    /\ kpc = "idle"
    /\ running' = FALSE
    /\ wpc' = NotifyAll(wpc)
    /\ kpc' = "reset"
    /\ lastCtl' = IF running THEN "resetRunning" ELSE "resetStopped"
    /\ UNCHANGED <<taskQueue, numThreads, wtask, prio, startLog, finished,
                   paused, cancelledTasks, cancelledQueued>>
    /\ UNCHANGED others_k

\* CoreKernel::reset, the rest: shutdownComponents clears the queue,
\* initializeComponents starts the worker threads; running is not touched
resetComponents ==
    /\ kpc = "reset"
    /\ AllJoined
    /\ wpc' = [w \in Workers |-> IF w <= numThreads THEN "check" ELSE "none"]
    /\ taskQueue' = <<>>
    /\ kpc' = "idle"
    /\ UNCHANGED <<running, numThreads, wtask, prio, startLog, finished,
                   paused, cancelledTasks, lastCtl, cancelledQueued>>
    /\ UNCHANGED others_k

\* the kernel with all its control operations
ControlNext ==
    \/ initializeComponents
    \/ initialize
    \/ \E p \in {1, 9} : Len(prio) < MaxCtlTasks /\ scheduleTask(p)
    \/ scheduleTaskStopped
    \/ \E w \in Workers : WorkerCheck(w)
    \/ \E w \in Workers : WorkerDoze(w)
    \/ \E w \in Workers : WorkerSleep(w)
    \/ \E w \in Workers : WorkerTake(w)
    \/ \E w \in Workers : WorkerDone(w)
    \/ \E id \in CancelIds : cancelTask(id)
    \/ pause
    \/ resume
    \/ shutdown
    \/ shutdownStopped
    \/ shutdownComponents
    \/ reset
    \/ resetComponents

(***************************************************************************)
(* RecoveryManager.                                                        *)
(*                                                                         *)
(* State bytes are sequences over Bytes of length <= MaxStateLen.          *)
(* A stored record holds exactly the fields RecoveryPoint::toJson writes:  *)
(* id, size, isConsistent and checksum (timestamp and metadata play no     *)
(* part here); the state bytes are not among them.                         *)
(***************************************************************************)
Bytes == {0, 1}

RECURSIVE SeqsUpTo(_, _)
SeqsUpTo(S, n) ==
    IF n = 0 THEN {<<>>}
    ELSE LET shorter == SeqsUpTo(S, n - 1)
         IN shorter \cup {Append(q, x) : q \in {r \in shorter : Len(r) = n - 1}, x \in S}

States == SeqsUpTo(Bytes, MaxStateLen)

PointIds == 1..MaxPoints

NoFile == [exists |-> FALSE, complete |-> FALSE]

\* the file std::ofstream has created and nothing has been flushed to yet
PartialFile == [exists |-> TRUE, complete |-> FALSE]

NoSave == [active |-> FALSE]

\* SHA-256 as a hex string: modelled as an injective code of the byte
\* sequence (distinct inputs give distinct digests, no digest is empty)
RECURSIVE calculateChecksum(_)
calculateChecksum(data) ==
    IF data = <<>> THEN 1
    ELSE (Cardinality(Bytes) + 1) * calculateChecksum(SubSeq(data, 1, Len(data) - 1))
            + data[Len(data)] + 1

\* the checksum field of a default-constructed RecoveryPoint: the empty string
EmptyChecksum == 0

\* zlib framing of the state: a header byte followed by the transformed payload
CompressHeader == Cardinality(Bytes)

compressState(data) ==
    <<CompressHeader>> \o [i \in 1..Len(data) |-> 1 - data[Len(data) + 1 - i]]

\* inflating data that carries no header fails and leaves the data as it is
decompressState(data) ==
    IF data # <<>> /\ data[1] = CompressHeader
    THEN [i \in 1..(Len(data) - 1) |-> 1 - data[Len(data) + 1 - i]]
    ELSE data

\* the result decompressState returns: whether the data could be inflated
decompressOk(data) == data # <<>> /\ data[1] = CompressHeader

\* detail::StateValidator::validateState
validateState(state) ==
    IF state = <<>> THEN FALSE ELSE calculateChecksum(state) # EmptyChecksum

\* RecoveryPoint::toJson: the fields written to the file
toJson(point) ==
    [exists |-> TRUE, complete |-> TRUE, id |-> point.id, size |-> point.size,
     isConsistent |-> point.isConsistent, checksum |-> point.checksum]

\* RecoveryPoint::fromJson: a default-constructed point filled from the file
fromJson(j) ==
    [id |-> j.id, state |-> <<>>, size |-> j.size,
     isConsistent |-> j.isConsistent, checksum |-> j.checksum]

NoOp == [op |-> "none", id |-> 0, result |-> FALSE,
         called |-> FALSE, handed |-> <<>>, stored |-> EmptyChecksum,
         captureCalled |-> FALSE, accepts |-> FALSE,
         stepsOk |-> FALSE, errorFired |-> FALSE, sawPartial |-> FALSE]

\* cleanupOldPoints: the table once the points with the oldest timestamps
\* are erased (ids are handed out in the order of the timestamps)
cleanupOldPoints(table, max) ==
    IF Cardinality(table) <= max THEN table
    ELSE {i \in table : Cardinality({j \in table : j > i}) < max}

RecoveryIdle ==
    /\ enableStateValidation = FALSE
    /\ enableCompression = FALSE
    /\ maxRecoveryPoints = 1
    /\ recoveryPoints = {}
    /\ appState = <<>>
    /\ files = [i \in PointIds |-> NoFile]
    /\ errorCount = 0
    /\ successfulRecoveries = 0
    /\ saving = NoSave
    /\ lastOp = NoOp

\* RecoveryManager::RecoveryManager(config)
RecoveryInit ==
    /\ enableStateValidation \in BOOLEAN
    /\ enableCompression \in BOOLEAN
    /\ maxRecoveryPoints \in 1..MaxPoints
    /\ recoveryPoints = {}
    /\ appState \in States
    /\ files = [i \in PointIds |-> NoFile]
    /\ errorCount = 0
    /\ successfulRecoveries = 0
    /\ saving = NoSave
    /\ lastOp = NoOp

\* the application's state changes between checkpoints
AppWrite(s) ==
    /\ s # appState
    /\ appState' = s
    /\ lastOp' = NoOp
    /\ UNCHANGED <<enableStateValidation, enableCompression, files, errorCount,
                   successfulRecoveries, maxRecoveryPoints, recoveryPoints, saving>>
    /\ UNCHANGED others_r

\* RecoveryManager::setConfiguration: the new configuration, then cleanupOldPoints
setConfiguration(v, c, m) ==
    /\ <<v, c, m>> # <<enableStateValidation, enableCompression, maxRecoveryPoints>>
    /\ enableStateValidation' = v
    /\ enableCompression' = c
    /\ maxRecoveryPoints' = m
    /\ recoveryPoints' = cleanupOldPoints(recoveryPoints, m)
    /\ lastOp' = NoOp
    /\ UNCHANGED <<appState, files, errorCount, successfulRecoveries, saving>>
    /\ UNCHANGED others_r

\* RecoveryManager::createRecoveryPoint up to the point where saveCheckpoint
\* has opened {id}.json (std::ofstream creates the file, empty);
\* generatePointId yields an unused id; isConsistent of the new point is set
\* only when validation is enabled and is indeterminate otherwise
createRecoveryPoint(id, garbage) ==
    /\ ~saving.active
    /\ ~files[id].exists
    /\ \A i \in PointIds : i < id => files[i].exists
    /\ LET captured == IF enableStateValidation THEN appState ELSE <<>>
           checksum == IF enableStateValidation
                       THEN calculateChecksum(captured) ELSE EmptyChecksum
           consistent == IF enableStateValidation
                         THEN validateState(captured) ELSE garbage
           state == IF enableCompression THEN compressState(captured) ELSE captured
           point == [id |-> id, state |-> state, size |-> Len(state),
                     isConsistent |-> consistent, checksum |-> checksum]
       IN /\ files' = [files EXCEPT ![id] = PartialFile]
          /\ saving' = [active |-> TRUE, id |-> id, json |-> toJson(point),
                        stored |-> checksum, captureCalled |-> enableStateValidation]
          /\ lastOp' = NoOp
    /\ UNCHANGED <<enableStateValidation, enableCompression, appState, errorCount,
                   successfulRecoveries, maxRecoveryPoints, recoveryPoints>>
    /\ UNCHANGED others_r

\* saveCheckpoint writes the record and closes the file; createRecoveryPoint
\* returns the id
saveCheckpoint ==
    /\ saving.active
    /\ files' = [files EXCEPT ![saving.id] = saving.json]
    /\ lastOp' = [NoOp EXCEPT !.op = "create", !.id = saving.id, !.result = TRUE,
                              !.stored = saving.stored,
                              !.captureCalled = saving.captureCalled]
    /\ saving' = NoSave
    /\ UNCHANGED <<enableStateValidation, enableCompression, appState, errorCount,
                   successfulRecoveries, maxRecoveryPoints, recoveryPoints>>
    /\ UNCHANGED others_r

\* RecoveryManager::restoreFromPoint(pointId); callbackOk is what the
\* state-restore callback returns if it is called
restoreFromPoint(id, callbackOk) ==
    /\ errorCount + successfulRecoveries < MaxRestores
    /\ LET loaded == files[id].exists /\ files[id].complete
           point == fromJson(files[id])
           state == IF enableCompression
                    THEN decompressState(point.state) ELSE point.state
           inflated == ~enableCompression \/ decompressOk(point.state)
           valid == ~enableStateValidation \/ validateState(state)
           called == loaded /\ valid
           ok == called /\ callbackOk
       IN /\ lastOp' = [op |-> "restore", id |-> id,
                        result |-> ok, called |-> called,
                        handed |-> IF called THEN state ELSE <<>>,
                        stored |-> IF loaded THEN point.checksum ELSE EmptyChecksum,
                        captureCalled |-> /\ lastOp.op = "create"
                                          /\ lastOp.id = id
                                          /\ lastOp.captureCalled,
                        accepts |-> callbackOk,
                        stepsOk |-> loaded /\ inflated /\ valid /\ callbackOk,
                        errorFired |-> ~ok,
                        sawPartial |-> files[id].exists /\ ~files[id].complete]
          /\ errorCount' = IF ok THEN errorCount ELSE errorCount + 1
          /\ successfulRecoveries' =
                 IF ok THEN successfulRecoveries + 1 ELSE successfulRecoveries
    /\ UNCHANGED <<enableStateValidation, enableCompression, appState, files, saving,
                   maxRecoveryPoints, recoveryPoints>>
    /\ UNCHANGED others_r

RecoveryNext ==
    \/ \E s \in States : AppWrite(s)
    \/ \E v, c \in BOOLEAN, m \in 1..MaxPoints : setConfiguration(v, c, m)
    \/ \E id \in PointIds, g \in BOOLEAN : createRecoveryPoint(id, g)
    \/ saveCheckpoint
    \/ \E id \in PointIds, ok \in BOOLEAN : restoreFromPoint(id, ok)

(***************************************************************************)
(* LoadBalancer.                                                           *)
(*                                                                         *)
(* The source computes in double; here every quantity is an exact integer  *)
(* multiple of a fixed unit: usages, efficiencies, weights and thresholds  *)
(* in 1/100, networkBandwidth in units of 10 (so that bandwidth/1000 is in *)
(* 1/100), estimatedMemoryUsage in 1/100 of 2^30 bytes.  A resource score  *)
(* is in 1/10^6, a workload score in 1/400, a combined score in 1/(4*10^7).*)
(***************************************************************************)
Strategies == {"ResourceAware", "WorkloadSpecific", "HybridAdaptive",
               "PriorityAdaptive", "LeastLoaded", "RoundRobin"}

TaskTypes == {"CPU_INTENSIVE", "IO_INTENSIVE", "MEMORY_INTENSIVE",
              "NETWORK_INTENSIVE", "MIXED"}

DefaultWeights == [cpu |-> 30, memory |-> 25, network |-> 25, energy |-> 20]

DefaultThresholds == [resource |-> 80, workload |-> 70]

\* KernelMetrics: the fields the balancer reads
Metric(cpu, mem, cpuEff) ==
    [cpuUsage |-> cpu, memoryUsage |-> mem, networkBandwidth |-> 0,
     energyConsumption |-> 0, cpuTaskEfficiency |-> cpuEff,
     ioTaskEfficiency |-> 50, memoryTaskEfficiency |-> 50,
     networkTaskEfficiency |-> 50]

MetricProfiles ==
    {Metric(95, 30, 40), Metric(20, 40, 40), Metric(20, 95, 90)}

\* a call whose metrics do not match the kernels
MismatchedMetrics == {<<Metric(20, 40, 40)>>}

MetricVectors == SeqsUpTo(MetricProfiles, MaxKernels)

\* TaskDescriptor: the fields the balancer reads
Task(type, priority, est) ==
    [type |-> type, priority |-> priority, estimatedMemoryUsage |-> est]

TaskProfiles ==
    {Task("MIXED", 5, 0), Task("CPU_INTENSIVE", 8, 0), Task("CPU_INTENSIVE", 5, 50)}

TaskBatches == SeqsUpTo(TaskProfiles, MaxBatch)

WeightChoices == {<<30, 25, 25, 20>>, <<100, 100, 100, 100>>, <<50, 50, 0, 0>>}

ThresholdChoices == {<<80, 70>>, <<30, 30>>}

\* LoadBalancer::calculateResourceScore, in 1/10^6
calculateResourceScore(m, task) ==
    LET cpuScore == (100 - m.cpuUsage) * weights.cpu * 100
        memoryBase == (100 - m.memoryUsage) * weights.memory
        memoryScore == IF task.estimatedMemoryUsage > 0
                       THEN memoryBase * (100 - task.estimatedMemoryUsage)
                       ELSE memoryBase * 100
        networkScore == m.networkBandwidth * weights.network * 100
        energyScore == (100 - m.energyConsumption) * weights.energy * 100
    IN cpuScore + memoryScore + networkScore + energyScore

\* LoadBalancer::calculateWorkloadScore, in 1/400
calculateWorkloadScore(m, task) ==
    CASE task.type = "CPU_INTENSIVE" -> 4 * (100 - m.cpuTaskEfficiency)
      [] task.type = "IO_INTENSIVE" -> 4 * (100 - m.ioTaskEfficiency)
      [] task.type = "MEMORY_INTENSIVE" -> 4 * (100 - m.memoryTaskEfficiency)
      [] task.type = "NETWORK_INTENSIVE" -> 4 * (100 - m.networkTaskEfficiency)
      [] task.type = "MIXED" ->
            400 - (m.cpuTaskEfficiency + m.ioTaskEfficiency
                   + m.memoryTaskEfficiency + m.networkTaskEfficiency)

\* the same index, counted from 1
ArgMinOneBased(score, n) ==
    IF n = 0 THEN 0
    ELSE CHOOSE i \in 1..n :
             /\ \A j \in 1..n : score[i] <= score[j]
             /\ \A j \in 1..(i - 1) : score[j] > score[i]

\* the selection loops: the first index (0-based) whose score is the least
ArgMin(score, n) ==
    IF n = 0 THEN 0
    ELSE (CHOOSE i \in 1..n :
             /\ \A j \in 1..n : score[i] <= score[j]
             /\ \A j \in 1..(i - 1) : score[j] > score[i]) - 1

\* LoadBalancer::selectByResourceAware
selectByResourceAware(metrics, task) ==
    ArgMin([i \in 1..Len(metrics) |-> calculateResourceScore(metrics[i], task)],
           Len(metrics))

\* LoadBalancer::selectByWorkloadSpecific
selectByWorkloadSpecific(metrics, task) ==
    ArgMin([i \in 1..Len(metrics) |-> calculateWorkloadScore(metrics[i], task)],
           Len(metrics))

\* LoadBalancer::selectByHybridAdaptive
selectByHybridAdaptive(metrics, task) ==
    LET resourceScore == calculateResourceScore(metrics[1], task)
        workloadScore == calculateWorkloadScore(metrics[1], task)
    IN IF resourceScore > thresholds.resource * 10000
       THEN selectByResourceAware(metrics, task)
       ELSE IF task.type # "MIXED" /\ workloadScore > thresholds.workload * 4
       THEN selectByWorkloadSpecific(metrics, task)
       ELSE ArgMin([i \in 1..Len(metrics) |->
                        24 * calculateResourceScore(metrics[i], task)
                        + 40000 * calculateWorkloadScore(metrics[i], task)],
                   Len(metrics))

RECURSIVE SumOf(_, _)
SumOf(f, n) == IF n = 0 THEN 0 ELSE f[n] + SumOf(f, n - 1)

\* a switch only when both averages exceed 0.9
shouldSwitchOnBoth(metrics) ==
    LET n == Len(metrics)
    IN /\ SumOf([i \in 1..n |-> metrics[i].cpuUsage], n) > 90 * n
       /\ SumOf([i \in 1..n |-> metrics[i].memoryUsage], n) > 90 * n

\* LoadBalancer::shouldSwitchStrategy
shouldSwitchStrategy(metrics) ==
    LET n == Len(metrics)
    IN \/ SumOf([i \in 1..n |-> metrics[i].cpuUsage], n) > 90 * n
       \/ SumOf([i \in 1..n |-> metrics[i].memoryUsage], n) > 90 * n

\* the switch statement of balance: the kernel chosen under strategy s
selectKernel(s, metrics, task) ==
    CASE s = "ResourceAware" -> selectByResourceAware(metrics, task)
      [] s = "WorkloadSpecific" -> selectByWorkloadSpecific(metrics, task)
      [] s = "HybridAdaptive" -> selectByHybridAdaptive(metrics, task)
      [] OTHER -> selectByResourceAware(metrics, task)

StrategyName(s) ==
    CASE s = "ResourceAware" -> "resource_aware"
      [] s = "WorkloadSpecific" -> "workload_specific"
      [] s = "HybridAdaptive" -> "hybrid_adaptive"
      [] s = "LeastLoaded" -> "least_loaded"
      [] s = "RoundRobin" -> "round_robin"
      [] OTHER -> "priority_adaptive"

NoCall == [op |-> "none", kernels |-> 0, metrics |-> <<>>, tasks |-> <<>>,
           dispatched |-> <<>>, strategyBefore |-> "HybridAdaptive"]

\* LoadBalancer::LoadBalancer()
BalancerInit ==
    /\ strategy = "hybrid_adaptive"
    /\ strategyEnum = "HybridAdaptive"
    /\ weights = DefaultWeights
    /\ thresholds = DefaultThresholds
    /\ decisions = [resourceAware |-> 0, workloadSpecific |-> 0, total |-> 0]
    /\ lastCall = NoCall

\* the stored weights after setResourceWeights(cpu, memory, network, energy)
StoredWeights(c, m, n, e) == [cpu |-> c, memory |-> m, network |-> n, energy |-> e]

\* LoadBalancer::setResourceWeights
setResourceWeights(c, m, n, e) ==
    /\ weights' = StoredWeights(c, m, n, e)
    /\ lastCall' = [NoCall EXCEPT !.op = "setResourceWeights"]
    /\ UNCHANGED <<strategy, strategyEnum, thresholds, decisions>>
    /\ UNCHANGED others_b

\* LoadBalancer::setAdaptiveThresholds
setAdaptiveThresholds(r, w) ==
    /\ thresholds' = [resource |-> r, workload |-> w]
    /\ lastCall' = NoCall
    /\ UNCHANGED <<strategy, strategyEnum, weights, decisions>>
    /\ UNCHANGED others_b

\* LoadBalancer::setStrategy(BalancingStrategy)
setStrategy(s) ==
    /\ strategyEnum' = s
    /\ strategy' = StrategyName(s)
    /\ lastCall' = NoCall
    /\ UNCHANGED <<weights, thresholds, decisions>>
    /\ UNCHANGED others_b

\* the tasks in the order in which they arrive
InputOrder(tasks) == tasks

\* balance: the tasks are copied into highPriority (priority >= 7) and
\* lowPriority, each in input order, and highPriority is processed first
HighFirst(tasks) ==
    LET IsHigh(t) == t.priority >= 7
        IsLow(t) == t.priority < 7
    IN SelectSeq(tasks, IsHigh) \o SelectSeq(tasks, IsLow)

\* the strategy names setStrategy(const std::string&) is called with
StrategyNames == {"resource_aware", "workload_specific", "hybrid_adaptive",
                  "least_loaded", "round_robin", "fastest_first"}

\* LoadBalancer::setStrategy(const std::string&)
setStrategyByName(name) ==
    /\ strategy' = name
    /\ strategyEnum' =
          CASE name = "resource_aware" -> "ResourceAware"
            [] name = "workload_specific" -> "WorkloadSpecific"
            [] name = "hybrid_adaptive" -> "HybridAdaptive"
            [] name = "least_loaded" -> "LeastLoaded"
            [] name = "round_robin" -> "RoundRobin"
            [] OTHER -> "PriorityAdaptive"
    /\ lastCall' = [NoCall EXCEPT !.op = "setStrategyByName"]
    /\ UNCHANGED <<weights, thresholds, decisions>>
    /\ UNCHANGED others_b

\* LoadBalancer::balance(kernels, tasks, metrics); nk is kernels.size().
\* lastCall keeps the history of one call: it is cleared by the next setter
\* call, and calls of balance are taken one setter call apart (setStrategy
\* with the current strategy changes nothing else).
balance(nk, tasks, metrics) ==
    /\ decisions.total + Len(tasks) <= MaxDecisions
    /\ lastCall.op # "balance"
    /\ IF nk = 0 \/ tasks = <<>> \/ Len(metrics) # nk
       THEN /\ lastCall' = [NoCall EXCEPT !.op = "balance", !.kernels = nk,
                                          !.metrics = metrics, !.tasks = tasks,
                                          !.strategyBefore = strategyEnum]
            /\ UNCHANGED <<strategy, strategyEnum, decisions>>
       ELSE LET switch == shouldSwitchStrategy(metrics)
                s == IF ~switch THEN strategyEnum
                     ELSE IF strategyEnum = "ResourceAware"
                          THEN "WorkloadSpecific" ELSE "ResourceAware"
                ordered == HighFirst(tasks)
                n == Len(ordered)
            IN /\ strategyEnum' = s
               /\ strategy' = IF switch THEN StrategyName(s) ELSE strategy
               /\ decisions' =
                    [resourceAware |-> decisions.resourceAware
                                       + (IF s = "ResourceAware" THEN n ELSE 0),
                     workloadSpecific |-> decisions.workloadSpecific
                                          + (IF s = "WorkloadSpecific" THEN n ELSE 0),
                     total |-> decisions.total + n]
               /\ lastCall' =
                    [op |-> "balance",
                     kernels |-> nk, metrics |-> metrics, tasks |-> tasks,
                     dispatched |-> [i \in 1..n |->
                         [kernel |-> selectKernel(s, metrics, ordered[i]),
                          priority |-> ordered[i].priority,
                          task |-> ordered[i]]],
                     strategyBefore |-> strategyEnum]
    /\ UNCHANGED <<weights, thresholds>>
    /\ UNCHANGED others_b

BalancerNext ==
    \/ \E w \in WeightChoices : setResourceWeights(w[1], w[2], w[3], w[4])
    \/ \E t \in ThresholdChoices : setAdaptiveThresholds(t[1], t[2])
    \/ \E s \in Strategies : setStrategy(s)
    \/ \E name \in StrategyNames : setStrategyByName(name)
    \/ \E tasks \in TaskBatches, metrics \in MetricVectors :
            balance(Len(metrics), tasks, metrics)
    \/ \E nk \in 0..MaxKernels, tasks \in TaskBatches, metrics \in MismatchedMetrics :
            balance(nk, tasks, metrics)

(***************************************************************************)
(* DynamicCache<Key, Value>.  The class is declared in the repository, its *)
(* member functions are defined outside the sources at hand; they are      *)
(* modelled after the specification's description of the cache: an entry   *)
(* (data, lastAccess, ttlSeconds) is live iff ttlSeconds = 0 or            *)
(* now - lastAccess < ttlSeconds; get advances lastAccess and the LRU      *)
(* recency, and removes an expired entry; put overwrites and moves to the  *)
(* front, or inserts at the front and evicts the LRU tail while the size   *)
(* exceeds allocatedSize.                                                  *)
(***************************************************************************)
Keys == {"a", "b", "c", "d", "e"}

TtlKeys == {"a", "b"}

Values == {1, 2}

TtlChoices == {0, 1, 2}

NoGet == [op |-> "none", key |-> "", hit |-> FALSE, data |-> 0, time |-> 0]

NoPut == [time |-> -1, ttlSeconds |-> 0]

Entry(data, lastAccess, ttlSeconds) ==
    [data |-> data, lastAccess |-> lastAccess, ttlSeconds |-> ttlSeconds]

\* an entry is live iff it is immortal or younger than its TTL
isLive(e, t) == e.ttlSeconds = 0 \/ t - e.lastAccess < e.ttlSeconds

Erase(c, key) == [x \in (DOMAIN c) \ {key} |-> c[x]]

Insert(c, key, e) == [x \in (DOMAIN c) \cup {key} |-> IF x = key THEN e ELSE c[x]]

Without(l, key) == SelectSeq(l, LAMBDA x : x # key)

\* a plausible slip: a key already in the list keeps its place
promoteNew(l, key) == IF key \in Range(l) THEN l ELSE <<key>> \o l

\* move-to-front, or insert-front
promote(l, key) == <<key>> \o Without(l, key)

\* size()
size == Cardinality(DOMAIN cache_)

\* evictLRU: drop the tail of the LRU list
evictLRU(st) ==
    LET victim == st.lru[Len(st.lru)]
    IN  [cache |-> Erase(st.cache, victim), lru |-> SubSeq(st.lru, 1, Len(st.lru) - 1)]

RECURSIVE evictIfNeeded(_, _)
\* evict the LRU tail until the size is allocatedSize
evictIfNeeded(st, cap) ==
    IF Cardinality(DOMAIN st.cache) > cap /\ Len(st.lru) > 0
    THEN evictIfNeeded(evictLRU(st), cap)
    ELSE st

\* a cache that nobody uses
CacheIdle ==
    /\ allocatedSize_ = 1
    /\ defaultTTL_ = 0
    /\ cache_ = <<>>
    /\ lruList_ = <<>>
    /\ now = 0
    /\ recency = <<>>
    /\ putInfo = [k \in Keys |-> NoPut]
    /\ lastGet = NoGet

\* DynamicCache(initialSize, defaultTTL)
DynamicCache(ttls) ==
    /\ allocatedSize_ \in 1..MaxCapacity
    /\ defaultTTL_ \in ttls
    /\ cache_ = <<>>
    /\ lruList_ = <<>>
    /\ now = 0
    /\ recency = <<>>
    /\ putInfo = [k \in Keys |-> NoPut]
    /\ lastGet = NoGet

\* put(key, value, ttlSeconds), as it acts on the cache
putEntry(key, value, ttlSeconds) ==
    LET st == evictIfNeeded([cache |-> Insert(cache_, key, Entry(value, now, ttlSeconds)),
                             lru |-> promote(lruList_, key)], allocatedSize_)
    IN  /\ cache_' = st.cache
        /\ lruList_' = st.lru
        /\ recency' = <<key>> \o Without(recency, key)
        /\ putInfo' = [putInfo EXCEPT ![key] = [time |-> now, ttlSeconds |-> ttlSeconds]]
        /\ lastGet' = NoGet
        /\ UNCHANGED <<allocatedSize_, defaultTTL_, now>>

\* put(key, value, ttlSeconds)
putTtl(key, value, ttlSeconds) == putEntry(key, value, ttlSeconds) /\ UNCHANGED others_c

\* put(key, value): the default TTL
put(key, value) == putTtl(key, value, defaultTTL_)

\* get(key)
get(key) ==
    /\ IF key \notin DOMAIN cache_
       THEN /\ lastGet' = [op |-> "get", key |-> key, hit |-> FALSE, data |-> 0, time |-> now]
            /\ UNCHANGED <<cache_, lruList_, recency>>
       ELSE IF ~isLive(cache_[key], now)
       THEN /\ cache_' = Erase(cache_, key)
            /\ lruList_' = Without(lruList_, key)
            /\ lastGet' = [op |-> "get", key |-> key, hit |-> FALSE, data |-> 0, time |-> now]
            /\ UNCHANGED recency
       ELSE /\ cache_' = [cache_ EXCEPT ![key].lastAccess = now]
            /\ lruList_' = promote(lruList_, key)
            /\ recency' = <<key>> \o Without(recency, key)
            /\ lastGet' = [op |-> "get", key |-> key, hit |-> TRUE,
                           data |-> cache_[key].data, time |-> now]
    /\ UNCHANGED <<allocatedSize_, defaultTTL_, now, putInfo, others_c>>

\* removeExpired: the housekeeping scan
removeExpired ==
    LET dead == {k \in DOMAIN cache_ : ~isLive(cache_[k], now)}
    IN  /\ dead # {}
        /\ cache_' = [x \in (DOMAIN cache_) \ dead |-> cache_[x]]
        /\ lruList_' = SelectSeq(lruList_, LAMBDA x : x \notin dead)
        /\ lastGet' = NoGet
        /\ UNCHANGED <<allocatedSize_, defaultTTL_, now, recency, putInfo, others_c>>

\* the clock advances by one second
Tick ==
    /\ now < MaxTime
    /\ now' = now + 1
    /\ lastGet' = NoGet
    /\ UNCHANGED <<allocatedSize_, defaultTTL_, cache_, lruList_, recency, putInfo, others_c>>

LRUNext ==
    \/ \E k \in Keys, v \in Values : put(k, v)
    \/ \E k \in Keys : get(k)

TTLNext ==
    \/ \E k \in TtlKeys, v \in Values : put(k, v)
    \/ \E k \in TtlKeys, t \in TtlChoices : putTtl(k, 1, t)
    \/ \E k \in TtlKeys : get(k)
    \/ removeExpired
    \/ Tick

(***************************************************************************)
(* PreloadManager and warmupFromPreload.  The task processor is a detached *)
(* thread; it takes tasksMutex to pop a task and runs processTask, hence   *)
(* loadData, without it.  getAllKeys and getDataForKey each take           *)
(* tasksMutex for the duration of the call, so the processor's steps fall  *)
(* between the calls of the warm-up.  The processor's insertion into       *)
(* accessHistory races with the warm-up's reads and insertions: while it   *)
(* is under way a reader may see any part of the set.                      *)
(***************************************************************************)
PreloadKeys == {"a", "b", "c"}

Ascii == [a |-> 97, b |-> 98, c |-> 99, d |-> 100, e |-> 101]

\* the bytes loadData produces: the characters of the key
KeyBytes(key) == <<Ascii[key]>>

Payloads == {<<>>, <<1>>, <<97>>}

NoData == <<-1>>

NoTask == [key |-> "", data |-> <<>>]

\* the enumerations of a set, in any order
SeqsOf(S) == {q \in [1..Cardinality(S) -> S] : Range(q) = S}

QueueKeys(q) == [i \in 1..Len(q) |-> q[i].key]

\* the set a reader of accessHistory may see
HistoryViews ==
    IF ppc = "loading" THEN SUBSET (accessHistory \cup {ptask.key}) ELSE {accessHistory}

\* the set accessHistory may be after the insertion of key
HistoryAfterInsert(key) ==
    IF ppc = "loading"
    THEN SUBSET (accessHistory \cup {key, ptask.key})
    ELSE {accessHistory \cup {key}}

PreloadIdle ==
    /\ pendingTasks = <<>>
    /\ stopFlag = FALSE
    /\ ppc = "none"
    /\ ptask = NoTask
    /\ accessHistory = {}
    /\ wpos = "idle"
    /\ wkeys = <<>>
    /\ given = [k \in PreloadKeys |-> NoData]
    /\ wgiven = [k \in PreloadKeys |-> NoData]

\* PreloadManager(config), and a kernel cache that holds every key
PreloadInit ==
    /\ PreloadIdle
    /\ allocatedSize_ \in Cardinality(PreloadKeys)..MaxCapacity
    /\ defaultTTL_ = 0
    /\ cache_ = <<>>
    /\ lruList_ = <<>>
    /\ now = 0
    /\ recency = <<>>
    /\ putInfo = [k \in Keys |-> NoPut]
    /\ lastGet = NoGet

\* preloadData(key, data): a full queue rejects the task
preloadData(key, data) ==
    /\ given[key] = NoData
    /\ IF Len(pendingTasks) >= MaxQueue
       THEN UNCHANGED <<pendingTasks, given>>
       ELSE /\ pendingTasks' = Append(pendingTasks, [key |-> key, data |-> data])
            /\ given' = [given EXCEPT ![key] = data]
    /\ UNCHANGED <<stopFlag, ppc, ptask, accessHistory, wpos, wkeys, wgiven, cvars, others_p>>

\* initialize(): startTaskProcessor launches the processor thread
startTaskProcessor ==
    /\ ppc = "none"
    /\ ppc' = "wait"
    /\ UNCHANGED <<pendingTasks, stopFlag, ptask, accessHistory, wpos, wkeys, given, wgiven,
                   cvars, others_p>>

\* stop()
stop ==
    /\ ~stopFlag
    /\ stopFlag' = TRUE
    /\ UNCHANGED <<pendingTasks, ppc, ptask, accessHistory, wpos, wkeys, given, wgiven,
                   cvars, others_p>>

\* the processor's wait: leave on stop with an empty queue, else pop the front
ProcessorTake ==
    /\ ppc = "wait"
    /\ stopFlag \/ pendingTasks # <<>>
    /\ IF stopFlag /\ pendingTasks = <<>>
       THEN ppc' = "exited" /\ UNCHANGED <<pendingTasks, ptask>>
       ELSE /\ ptask' = Head(pendingTasks)
            /\ pendingTasks' = Tail(pendingTasks)
            /\ ppc' = "process"
    /\ UNCHANGED <<stopFlag, accessHistory, wpos, wkeys, given, wgiven, cvars, others_p>>

\* processTask: empty data throw, the processor logs and goes on; else loadData starts
ProcessorProcess ==
    /\ ppc = "process"
    /\ IF ptask.data = <<>>
       THEN /\ ppc' = IF stopFlag THEN "exited" ELSE "wait"
            /\ ptask' = NoTask
       ELSE /\ ppc' = "loading"
            /\ UNCHANGED ptask
    /\ UNCHANGED <<pendingTasks, stopFlag, accessHistory, wpos, wkeys, given, wgiven,
                   cvars, others_p>>

\* loadData of the processor has inserted the key
ProcessorLoaded ==
    /\ ppc = "loading"
    /\ accessHistory' = accessHistory \cup {ptask.key}
    /\ ppc' = IF stopFlag THEN "exited" ELSE "wait"
    /\ ptask' = NoTask
    /\ UNCHANGED <<pendingTasks, stopFlag, wpos, wkeys, given, wgiven, cvars, others_p>>

\* warmupFromPreload, first part: getAllKeys, the keys of the queue and then
\* those of the history
getAllKeys ==
    /\ wpos = "idle"
    /\ \E view \in HistoryViews :
         \E rest \in SeqsOf(view \ Range(QueueKeys(pendingTasks))) :
            wkeys' = QueueKeys(pendingTasks) \o rest
    /\ wpos' = "loop"
    /\ wgiven' = given
    /\ UNCHANGED <<pendingTasks, stopFlag, ppc, ptask, accessHistory, given, cvars, others_p>>

\* the data of the first task of the queue with this key
QueuedData(key) ==
    LET i == CHOOSE j \in 1..Len(pendingTasks) :
                 pendingTasks[j].key = key /\ \A h \in 1..(j - 1) : pendingTasks[h].key # key
    IN  pendingTasks[i].data

\* warmupFromPreload, one round of the loop: getDataForKey and put
getDataForKey ==
    /\ wpos = "loop"
    /\ wkeys # <<>>
    /\ LET key == Head(wkeys)
       IN  IF key \in Range(QueueKeys(pendingTasks))
           THEN /\ putEntry(key, QueuedData(key), defaultTTL_)
                /\ UNCHANGED accessHistory
           ELSE /\ putEntry(key, KeyBytes(key), defaultTTL_)
                /\ accessHistory' \in HistoryAfterInsert(key)
    /\ wkeys' = Tail(wkeys)
    /\ UNCHANGED <<pendingTasks, stopFlag, ppc, ptask, wpos, given, wgiven, others_p>>

\* warmupFromPreload, the end of the loop
warmupCompleted ==
    /\ wpos = "loop"
    /\ wkeys = <<>>
    /\ wpos' = "done"
    /\ UNCHANGED <<pendingTasks, stopFlag, ppc, ptask, accessHistory, wkeys, given, wgiven,
                   cvars, others_p>>

PreloadNext ==
    \/ \E k \in PreloadKeys, d \in Payloads : preloadData(k, d)
    \/ startTaskProcessor
    \/ stop
    \/ ProcessorTake
    \/ ProcessorProcess
    \/ ProcessorLoaded
    \/ getAllKeys
    \/ getDataForKey
    \/ warmupCompleted

(***************************************************************************)
(* ThreadPool: a FIFO queue of closures under queueMutex, worker threads   *)
(* in processTasks, stop and setConfiguration; ParentKernel's shutdown.    *)
(* A worker tests the predicate of its wait and blocks while it holds      *)
(* queueMutex, and stop is stored under queueMutex, so each of these is    *)
(* one step.                                                               *)
(***************************************************************************)
\* the pool as its constructor leaves it: the worker threads are created
\* and enter processTasks
ThreadPool(sizes) ==
    /\ tpTasks = <<>>
    /\ tpStop = FALSE
    /\ tpQueueSize \in sizes
    /\ tpWorker = [w \in Workers |-> "wait"]
    /\ tpCtl = "idle"
    /\ tpCount = 0
    /\ tpStarted = {}
    /\ tpQueuedAtStop = {}
    /\ tpLast = "none"
    /\ parentHeld = {}
    /\ activeThreads = 0
    /\ wfc = "none"

\* condition.notify_one(): the workers and the caller of waitForCompletion
\* wait on the same condition variable; one of the blocked threads, if
\* there is one, is woken
CondNotifyOne ==
    LET woken == {[workers |-> [tpWorker EXCEPT ![w] = "wait"], waiter |-> wfc] :
                      w \in {x \in Workers : tpWorker[x] = "asleep"}}
                 \cup (IF wfc = "asleep"
                       THEN {[workers |-> tpWorker, waiter |-> "woken"]} ELSE {})
    IN  IF woken = {} THEN {[workers |-> tpWorker, waiter |-> wfc]} ELSE woken

\* ThreadPool::enqueue(task), task a non-empty closure: throws when the
\* queue holds queueSize closures, else pushes and notifies one thread
enqueue ==
    /\ tpCtl # "terminated"
    /\ IF Len(tpTasks) >= tpQueueSize
       THEN /\ tpLast' = "full"
            /\ UNCHANGED <<tpTasks, tpWorker, tpCount, wfc>>
       ELSE /\ tpCount < MaxPoolTasks
            /\ tpTasks' = Append(tpTasks, tpCount + 1)
            /\ tpCount' = tpCount + 1
            /\ \E n \in CondNotifyOne : tpWorker' = n.workers /\ wfc' = n.waiter
            /\ tpLast' = "enqueued"
    /\ UNCHANGED <<tpStop, tpQueueSize, tpCtl, tpStarted, tpQueuedAtStop, parentHeld,
                   activeThreads>>
    /\ UNCHANGED others_t

\* processTasks: the predicate (stop || !tasks.empty()) is false and the
\* thread blocks in condition.wait, releasing queueMutex
processTasksWait(w) ==
    /\ tpWorker[w] = "wait"
    /\ ~tpStop /\ tpTasks = <<>>
    /\ tpWorker' = [tpWorker EXCEPT ![w] = "asleep"]
    /\ UNCHANGED <<tpTasks, tpStop, tpQueueSize, tpCtl, tpCount, tpStarted,
                   tpQueuedAtStop, tpLast, parentHeld>>
    /\ UNCHANGED <<activeThreads, wfc>>
    /\ UNCHANGED others_t

\* processTasks: the predicate holds; the thread returns when the pool is
\* stopped and the queue is empty, else it pops the front closure, which
\* it is going to call, and releases queueMutex
processTasks(w) ==
    /\ tpWorker[w] = "wait"
    /\ tpStop \/ tpTasks # <<>>
    /\ IF tpStop /\ tpTasks = <<>>
       THEN /\ tpWorker' = [tpWorker EXCEPT ![w] = "exited"]
            /\ UNCHANGED <<tpTasks, tpStarted>>
       ELSE /\ tpWorker' = [tpWorker EXCEPT ![w] = "taken"]
            /\ tpTasks' = Tail(tpTasks)
            /\ tpStarted' = tpStarted \cup {Head(tpTasks)}
    /\ UNCHANGED <<tpStop, tpQueueSize, tpCtl, tpCount, tpQueuedAtStop, tpLast, parentHeld>>
    /\ UNCHANGED <<activeThreads, wfc>>
    /\ UNCHANGED others_t

\* processTasks, outside the lock: ++activeThreads, then task() is called
processTasksRun(w) ==
    /\ tpWorker[w] = "taken"
    /\ tpWorker' = [tpWorker EXCEPT ![w] = "run"]
    /\ activeThreads' = activeThreads + 1
    /\ UNCHANGED <<tpTasks, tpStop, tpQueueSize, tpCtl, tpCount, tpStarted,
                   tpQueuedAtStop, tpLast, parentHeld, wfc>>
    /\ UNCHANGED others_t

\* what a call of a closure may do: return, throw an exception derived from
\* std::exception, or throw a value of another type
Outcomes == {"returns", "exception", "other"}

\* processTasks: task() ends. A return, and a std::exception, which the
\* handler catches, are followed by --activeThreads and the next turn of
\* the loop; any other exception leaves the thread function and
\* std::terminate ends the process
processTasksDone(w, outcome) ==
    /\ tpWorker[w] = "run"
    /\ IF outcome = "other"
       THEN /\ tpWorker' = [x \in Workers |-> "terminated"]
            /\ tpCtl' = "terminated"
            /\ wfc' = "terminated"
            /\ tpLast' = "terminated"
            /\ UNCHANGED activeThreads
       ELSE /\ tpWorker' = [tpWorker EXCEPT ![w] = "wait"]
            /\ activeThreads' = activeThreads - 1
            /\ tpLast' = IF outcome = "exception" THEN "caught" ELSE tpLast
            /\ UNCHANGED <<tpCtl, wfc>>
    /\ UNCHANGED <<tpTasks, tpStop, tpQueueSize, tpCount, tpStarted,
                   tpQueuedAtStop, parentHeld>>
    /\ UNCHANGED others_t

\* ThreadPool::waitForCompletion, one turn of its loop under queueMutex:
\* it returns when the queue is empty and activeThreads is 0, else it
\* blocks in condition.wait(lock) until a notification
waitForCompletion ==
    /\ wfc \in {"none", "woken"}
    /\ wfc' = IF tpTasks = <<>> /\ activeThreads = 0 THEN "returned" ELSE "asleep"
    /\ UNCHANGED <<tpTasks, tpStop, tpQueueSize, tpWorker, tpCtl, tpCount, tpStarted,
                   tpQueuedAtStop, tpLast, parentHeld, activeThreads>>
    /\ UNCHANGED others_t

\* ThreadPool::stop, its first block: stop = true under queueMutex
poolStop ==
    /\ tpCtl = "idle"
    /\ tpStop' = TRUE
    /\ tpQueuedAtStop' = tpQueuedAtStop \cup {tpTasks[i] : i \in 1..Len(tpTasks)}
    /\ tpCtl' = "stopNotify"
    /\ UNCHANGED <<tpTasks, tpQueueSize, tpWorker, tpCount, tpStarted, tpLast, parentHeld>>
    /\ UNCHANGED <<activeThreads, wfc>>
    /\ UNCHANGED others_t

\* ThreadPool::setConfiguration(config), config valid: the configuration
\* is replaced, then restart() begins with stop()
poolSetConfiguration(q) ==
    /\ tpCtl = "idle"
    /\ tpQueueSize' = q
    /\ tpStop' = TRUE
    /\ tpQueuedAtStop' = tpQueuedAtStop \cup {tpTasks[i] : i \in 1..Len(tpTasks)}
    /\ tpCtl' = "restartNotify"
    /\ UNCHANGED <<tpTasks, tpWorker, tpCount, tpStarted, tpLast, parentHeld>>
    /\ UNCHANGED <<activeThreads, wfc>>
    /\ UNCHANGED others_t

\* ThreadPool::stop: condition.notify_all(), then the joins begin
poolNotifyAll ==
    /\ tpCtl \in {"stopNotify", "restartNotify"}
    /\ tpWorker' = NotifyAll(tpWorker)
    /\ wfc' = IF wfc = "asleep" THEN "woken" ELSE wfc
    /\ tpCtl' = IF tpCtl = "stopNotify" THEN "stopJoin" ELSE "restartJoin"
    /\ UNCHANGED <<tpTasks, tpStop, tpQueueSize, tpCount, tpStarted,
                   tpQueuedAtStop, tpLast, parentHeld, activeThreads>>
    /\ UNCHANGED others_t

\* ThreadPool::stop: every joinable worker has been joined, stop returns
poolJoined ==
    /\ tpCtl = "stopJoin"
    /\ \A w \in Workers : tpWorker[w] \in {"exited", "joined"}
    /\ tpWorker' = [w \in Workers |-> "joined"]
    /\ tpCtl' = "idle"
    /\ tpLast' = "stop"
    /\ UNCHANGED <<tpTasks, tpStop, tpQueueSize, tpCount, tpStarted,
                   tpQueuedAtStop, parentHeld>>
    /\ UNCHANGED <<activeThreads, wfc>>
    /\ UNCHANGED others_t

\* ThreadPool::restart after its stop(): stop = false, the workers are
\* cleared and created again
restart ==
    /\ tpCtl = "restartJoin"
    /\ \A w \in Workers : tpWorker[w] \in {"exited", "joined"}
    /\ tpStop' = FALSE
    /\ tpWorker' = [w \in Workers |-> "wait"]
    /\ tpCtl' = "idle"
    /\ tpLast' = "setConfiguration"
    /\ UNCHANGED <<tpTasks, tpQueueSize, tpCount, tpStarted, tpQueuedAtStop, parentHeld>>
    /\ UNCHANGED <<activeThreads, wfc>>
    /\ UNCHANGED others_t

\* ParentKernel::initialize: the optimizer, the cache and the pool are created
parentInitialize ==
    /\ parentHeld' = parentHeld \cup {"platformOptimizer", "dynamicCache", "threadPool"}
    /\ UNCHANGED <<tpTasks, tpStop, tpQueueSize, tpWorker, tpCtl, tpCount, tpStarted,
                   tpQueuedAtStop, tpLast>>
    /\ UNCHANGED <<activeThreads, wfc>>
    /\ UNCHANGED others_t

\* ParentKernel::shutdown: every component held is shut down and its
\* pointer reset, the children are shut down and the list is cleared
parentShutdown ==
    /\ parentHeld' = {}
    /\ UNCHANGED <<tpTasks, tpStop, tpQueueSize, tpWorker, tpCtl, tpCount, tpStarted,
                   tpQueuedAtStop, tpLast>>
    /\ UNCHANGED <<activeThreads, wfc>>
    /\ UNCHANGED others_t

PoolNext ==
    \/ enqueue
    \/ \E w \in Workers : processTasksWait(w)
    \/ \E w \in Workers : processTasks(w)
    \/ \E w \in Workers : processTasksRun(w)
    \/ \E w \in Workers, o \in Outcomes : processTasksDone(w, o)
    \/ waitForCompletion
    \/ poolStop
    \/ \E q \in 1..MaxPoolQueue : poolSetConfiguration(q)
    \/ poolNotifyAll
    \/ poolJoined
    \/ restart

\* the kernel's life cycle, a thread pool and the parent kernel: three
\* objects that share no state, so a behaviour drives one of them and
\* leaves the other two as they were constructed
ShutdownNext ==
    \/ ThreadPool({MaxPoolQueue}) /\ initializeComponents
    \/ ThreadPool({MaxPoolQueue}) /\ initialize
    \/ ThreadPool({MaxPoolQueue}) /\ (\E p \in {1, 9} : Len(prio) < MaxCtlTasks /\ scheduleTask(p))
    \/ ThreadPool({MaxPoolQueue}) /\ (\E w \in Workers : WorkerCheck(w))
    \/ ThreadPool({MaxPoolQueue}) /\ (\E w \in Workers : WorkerDoze(w))
    \/ ThreadPool({MaxPoolQueue}) /\ (\E w \in Workers : WorkerSleep(w))
    \/ ThreadPool({MaxPoolQueue}) /\ (\E w \in Workers : WorkerTake(w))
    \/ ThreadPool({MaxPoolQueue}) /\ (\E w \in Workers : WorkerDone(w))
    \/ ThreadPool({MaxPoolQueue}) /\ shutdown
    \/ ThreadPool({MaxPoolQueue}) /\ shutdownStopped
    \/ ThreadPool({MaxPoolQueue}) /\ shutdownComponents
    \/ KernelInit /\ parentHeld = {} /\ enqueue
    \/ KernelInit /\ parentHeld = {} /\ (\E w \in Workers : processTasksWait(w))
    \/ KernelInit /\ parentHeld = {} /\ (\E w \in Workers : processTasks(w))
    \/ KernelInit /\ parentHeld = {} /\ (\E w \in Workers : processTasksRun(w))
    \/ KernelInit /\ parentHeld = {} /\ (\E w \in Workers, o \in Outcomes : processTasksDone(w, o))
    \/ KernelInit /\ parentHeld = {} /\ poolStop
    \/ KernelInit /\ parentHeld = {} /\ poolNotifyAll
    \/ KernelInit /\ parentHeld = {} /\ poolJoined
    \/ KernelInit /\ tpCount = 0 /\ ~tpStop /\ parentInitialize
    \/ KernelInit /\ tpCount = 0 /\ ~tpStop /\ parentShutdown

(***************************************************************************)
(* DynamicCache: resize, batchPut, syncWith, migrateTo on two caches.      *)
(*                                                                         *)
(* The member functions are declared in the repository and defined outside *)
(* the sources at hand; they are modelled after the specification: put     *)
(* inserts at the front and evicts the LRU tail while the size exceeds     *)
(* allocatedSize; resize(n) sets allocatedSize and evicts down to n;       *)
(* batch_put puts every pair of the map; sync_with copies the live entries *)
(* of the other cache into this one, overwriting on conflict; migrate_to   *)
(* copies the live entries of this cache into the target and then clears   *)
(* this cache; sync_with and migrate_to take the exclusive locks of both   *)
(* caches in a globally fixed order.                                       *)
(***************************************************************************)
CacheIds == {1, 2}

SyncThreads == {1, 2}

SyncKeys == {"a", "b", "c"}

NoThread == 0

NoSyncOp == [op |-> "none", self |-> 0, other |-> 0, pc |-> "idle"]

\* before: the size before a resize
NoSync == [op |-> "none", cache |-> 0, key |-> "", before |-> 0]

\* the state of one cache
CacheState(n, c, l) == [allocatedSize |-> n, cache |-> c, lru |-> l]

\* the orders in which the elements of a set can be visited
Orders(S) == {q \in [1..Cardinality(S) -> S] : Range(q) = S}

\* the maps batchPut is called with, as the sets of their keys
BatchKeys == {S \in SUBSET SyncKeys : Cardinality(S) \in 1..2}

\* a plausible slip: put inserts and does not evict
putIntoNoEvict(st, key, e) ==
    CacheState(st.allocatedSize, Insert(st.cache, key, e), promote(st.lru, key))

\* put, on the state of a cache
putInto(st, key, e) ==
    LET r == evictIfNeeded([cache |-> Insert(st.cache, key, e),
                            lru |-> promote(st.lru, key)], st.allocatedSize)
    IN  CacheState(st.allocatedSize, r.cache, r.lru)

RECURSIVE putAll(_, _, _)
\* put the entries of src under the keys of order, one after the other
putAll(st, order, src) ==
    IF order = <<>> THEN st
    ELSE putAll(putInto(st, Head(order), src[Head(order)]), Tail(order), src)

\* the live entries of a cache
liveKeys(st) == {k \in DOMAIN st.cache : isLive(st.cache[k], now)}

\* a plausible slip: each operation locks its own cache first
LockSelfFirst(a, b) == <<a, b>>

\* the order in which the locks of caches a and b are taken: by id
LockOrder(a, b) == IF a < b THEN <<a, b>> ELSE <<b, a>>

\* two caches, no thread in an operation
SyncInit ==
    /\ caches \in [CacheIds -> {CacheState(n, <<>>, <<>>) : n \in 1..MaxSyncCapacity}]
    /\ mutex_ = [c \in CacheIds |-> NoThread]
    /\ syncOp = [t \in SyncThreads |-> NoSyncOp]
    /\ lastSync = NoSync

\* caches that nobody uses
SyncIdle ==
    /\ caches = [c \in CacheIds |-> CacheState(1, <<>>, <<>>)]
    /\ mutex_ = [c \in CacheIds |-> NoThread]
    /\ syncOp = [t \in SyncThreads |-> NoSyncOp]
    /\ lastSync = NoSync

\* put(key, value) on cache c, by thread t
cachePut(t, c, key) ==
    /\ syncOp[t].pc = "idle"
    /\ mutex_[c] = NoThread
    /\ caches' = [caches EXCEPT ![c] = putInto(caches[c], key, Entry(1, now, 0))]
    /\ lastSync' = [op |-> "put", cache |-> c, key |-> key,
                    before |-> 0]
    /\ UNCHANGED <<mutex_, syncOp, others_s>>

\* batchPut(data, ttlSeconds) on cache c, by thread t
batchPut(t, c, order) ==
    /\ syncOp[t].pc = "idle"
    /\ mutex_[c] = NoThread
    /\ caches' = [caches EXCEPT ![c] =
                      putAll(caches[c], order, [k \in Range(order) |-> Entry(1, now, 0)])]
    /\ lastSync' = [op |-> "batchPut", cache |-> c, key |-> "",
                    before |-> 0]
    /\ UNCHANGED <<mutex_, syncOp, others_s>>

\* resize(newSize) on cache c, by thread t
resize(t, c, newSize) ==
    /\ syncOp[t].pc = "idle"
    /\ mutex_[c] = NoThread
    /\ LET r == evictIfNeeded([cache |-> caches[c].cache, lru |-> caches[c].lru], newSize)
       IN  caches' = [caches EXCEPT ![c] = CacheState(newSize, r.cache, r.lru)]
    /\ lastSync' = [op |-> "resize", cache |-> c, key |-> "",
                    before |-> Cardinality(DOMAIN caches[c].cache)]
    /\ UNCHANGED <<mutex_, syncOp, others_s>>

\* thread t calls a.syncWith(b) or a.migrateTo(b)
syncCall(t, op, a, b) ==
    /\ syncOp[t].pc = "idle"
    /\ a # b
    /\ syncOp' = [syncOp EXCEPT ![t] = [op |-> op, self |-> a, other |-> b, pc |-> "first"]]
    /\ UNCHANGED <<caches, mutex_, lastSync, others_s>>

\* the lock thread t is about to take
nextLock(t) ==
    LockOrder(syncOp[t].self, syncOp[t].other)[IF syncOp[t].pc = "first" THEN 1 ELSE 2]

\* thread t takes the first, then the second exclusive lock
syncLock(t) ==
    /\ syncOp[t].pc \in {"first", "second"}
    /\ mutex_[nextLock(t)] = NoThread
    /\ mutex_' = [mutex_ EXCEPT ![nextLock(t)] = t]
    /\ syncOp' = [syncOp EXCEPT ![t].pc = IF syncOp[t].pc = "first" THEN "second" ELSE "copy"]
    /\ UNCHANGED <<caches, lastSync, others_s>>

\* syncWith(other): the copy under both locks, and the return
syncWith(t, order) ==
    LET a == syncOp[t].self
        b == syncOp[t].other
    IN  /\ syncOp[t].pc = "copy"
        /\ syncOp[t].op = "syncWith"
        /\ order \in Orders(liveKeys(caches[b]))
        /\ caches' = [caches EXCEPT ![a] = putAll(caches[a], order, caches[b].cache)]
        /\ mutex_' = [c \in CacheIds |-> NoThread]
        /\ syncOp' = [syncOp EXCEPT ![t] = NoSyncOp]
        /\ lastSync' = [op |-> "syncWith", cache |-> a, key |-> "",
                        before |-> 0]
        /\ UNCHANGED others_s

\* migrateTo(target): the copy under both locks, the clear, and the return
migrateTo(t, order) ==
    LET a == syncOp[t].self
        b == syncOp[t].other
    IN  /\ syncOp[t].pc = "copy"
        /\ syncOp[t].op = "migrateTo"
        /\ order \in Orders(liveKeys(caches[a]))
        /\ caches' = [caches EXCEPT ![b] = putAll(caches[b], order, caches[a].cache),
                                    ![a] = CacheState(caches[a].allocatedSize, <<>>, <<>>)]
        /\ mutex_' = [c \in CacheIds |-> NoThread]
        /\ syncOp' = [syncOp EXCEPT ![t] = NoSyncOp]
        /\ lastSync' = [op |-> "migrateTo", cache |-> b, key |-> "",
                        before |-> 0]
        /\ UNCHANGED others_s

SyncNext ==
    \/ \E t \in SyncThreads, c \in CacheIds, k \in SyncKeys : cachePut(t, c, k)
    \/ \E t \in SyncThreads, c \in CacheIds, S \in BatchKeys :
           \E order \in Orders(S) : batchPut(t, c, order)
    \/ \E t \in SyncThreads, c \in CacheIds, n \in 0..MaxSyncCapacity : resize(t, c, n)
    \/ \E t \in SyncThreads, op \in {"syncWith", "migrateTo"}, a \in CacheIds, b \in CacheIds :
           syncCall(t, op, a, b)
    \/ \E t \in SyncThreads : syncLock(t)
    \/ \E t \in SyncThreads, order \in UNION {Orders(S) : S \in SUBSET SyncKeys} :
           syncWith(t, order)
    \/ \E t \in SyncThreads, order \in UNION {Orders(S) : S \in SUBSET SyncKeys} :
           migrateTo(t, order)

(***************************************************************************)
(* CoreKernel::processTask and MicroKernel::processTask.                   *)
(*                                                                         *)
(* processTask holds kernelMutex in a std::unique_lock for the whole call  *)
(* and calls updateExtendedMetrics, which takes a std::unique_lock on the  *)
(* same std::shared_mutex.  Locking a shared_mutex the calling thread      *)
(* already owns is undefined: the thread blocks on itself, or the lock     *)
(* fails with resource_deadlock_would_occur, a std::system_error that the  *)
(* handler of processTask catches.                                         *)
(***************************************************************************)
KernelClasses == {"CoreKernel", "MicroKernel"}

ProcessTasks == {Task("CPU_INTENSIVE", 5, 0), Task("IO_INTENSIVE", 5, 0),
                 Task("CPU_INTENSIVE", 9, 0), Task("MIXED", 1, 0)}

RelockOutcomes == {"blocks", "system_error"}

\* a kernel that has not been initialized
ProcessInit ==
    /\ kernelClass \in KernelClasses
    /\ ptRunning = FALSE
    /\ taskCallback_ = FALSE
    /\ kernelMutex = "free"
    /\ ptPc = "idle"
    /\ ptTask = Task("MIXED", 1, 0)
    /\ callbackLog = <<>>
    /\ ptResult = "none"
    /\ eventLog = <<>>

\* a kernel that nobody uses
ProcessIdle ==
    /\ kernelClass = "CoreKernel"
    /\ ptRunning = FALSE
    /\ taskCallback_ = FALSE
    /\ kernelMutex = "free"
    /\ ptPc = "idle"
    /\ ptTask = Task("MIXED", 1, 0)
    /\ callbackLog = <<>>
    /\ ptResult = "none"
    /\ eventLog = <<>>

\* initialize(): the kernel runs
ptInitialize ==
    /\ ptPc \in {"idle", "returned"}
    /\ kernelMutex = "free"
    /\ ~ptRunning
    /\ ptRunning' = TRUE
    /\ UNCHANGED <<kernelClass, taskCallback_, kernelMutex, ptPc, ptTask, callbackLog,
                   ptResult, eventLog, others_x>>

\* setTaskCallback(callback), with a callback or with an empty std::function
setTaskCallback(installed) ==
    /\ ptPc \in {"idle", "returned"}
    /\ kernelMutex = "free"
    /\ taskCallback_' = installed
    /\ UNCHANGED <<kernelClass, ptRunning, kernelMutex, ptPc, ptTask, callbackLog,
                   ptResult, eventLog, others_x>>

\* processTask(task): the lock, and CoreKernel's check of running
processTask(task) ==
    /\ ptPc \in {"idle", "returned"}
    /\ kernelMutex = "free"
    /\ ptTask' = task
    /\ callbackLog' = <<>>
    /\ eventLog' = <<>>
    /\ IF kernelClass = "CoreKernel" /\ ~ptRunning
       THEN /\ ptResult' = "false"
            /\ ptPc' = "returned"
            /\ UNCHANGED kernelMutex
       ELSE /\ ptResult' = "none"
            /\ ptPc' = "callback"
            /\ kernelMutex' = "processTask"
    /\ UNCHANGED <<kernelClass, ptRunning, taskCallback_, others_x>>

\* if (taskCallback_) taskCallback_(task)
processTaskCallback ==
    /\ ptPc = "callback"
    /\ callbackLog' = IF taskCallback_ THEN Append(callbackLog, ptTask) ELSE callbackLog
    /\ ptPc' = "put"
    /\ UNCHANGED <<kernelClass, ptRunning, taskCallback_, kernelMutex, ptTask, ptResult,
                   eventLog, others_x>>

\* dynamicCache->put(key, task.data)
processTaskPut ==
    /\ ptPc = "put"
    /\ ptPc' = "metrics"
    /\ UNCHANGED <<kernelClass, ptRunning, taskCallback_, kernelMutex, ptTask, callbackLog,
                   ptResult, eventLog, others_x>>

\* whether the lock updateExtendedMetrics takes is owned by the calling thread
lockedByCaller(owner) == owner = "processTask"

\* updateExtendedMetrics(), and the rest of processTask
processTaskMetrics(outcome) ==
    /\ ptPc = "metrics"
    /\ IF lockedByCaller(kernelMutex)
       THEN IF outcome = "blocks"
            THEN /\ ptPc' = "blocked"
                 /\ UNCHANGED <<kernelMutex, ptResult, eventLog>>
            ELSE /\ eventLog' = Append(eventLog, "task_failed")
                 /\ ptResult' = "false"
                 /\ kernelMutex' = "free"
                 /\ ptPc' = "returned"
       ELSE /\ eventLog' = Append(eventLog, "task_processed")
            /\ ptResult' = "true"
            /\ kernelMutex' = "free"
            /\ ptPc' = "returned"
    /\ UNCHANGED <<kernelClass, ptRunning, taskCallback_, ptTask, callbackLog, others_x>>

ProcessNext ==
    \/ ptInitialize
    \/ \E b \in BOOLEAN : setTaskCallback(b)
    \/ \E d \in ProcessTasks : processTask(d)
    \/ processTaskCallback
    \/ processTaskPut
    \/ \E o \in RelockOutcomes : processTaskMetrics(o)

(***************************************************************************)
(* MicroKernel / CoreKernel: setEventCallback, removeEventCallback,        *)
(* triggerEvent.  triggerEvent calls notifyEvent, which looks the event up *)
(* in eventCallbacks_ and calls the handler on the calling thread with the *)
(* kernel's id and the data.                                               *)
(***************************************************************************)
KernelIdChoices == {"event_test", "test_event"}

EventNames == {"test_event", "task_processed", "warmup_completed"}

EventData == {"test_data", "other_data", ""}

NoTrigger == [event |-> "", data |-> ""]

\* what a handler is called with
HandlerArgs(first, second) == [first |-> first, second |-> second]

\* a kernel without handlers
EventInit ==
    /\ kernelId \in KernelIdChoices
    /\ eventCallbacks_ = {}
    /\ handlerCalls = <<>>
    /\ lastTrigger = NoTrigger

\* a kernel whose events nobody uses
EventIdle ==
    /\ kernelId = "event_test"
    /\ eventCallbacks_ = {}
    /\ handlerCalls = <<>>
    /\ lastTrigger = NoTrigger

\* setEventCallback(event, callback)
setEventCallback(event) ==
    /\ eventCallbacks_' = eventCallbacks_ \cup {event}
    /\ handlerCalls' = <<>>
    /\ lastTrigger' = NoTrigger
    /\ UNCHANGED <<kernelId, others_e>>

\* removeEventCallback(event)
removeEventCallback(event) ==
    /\ eventCallbacks_' = eventCallbacks_ \ {event}
    /\ handlerCalls' = <<>>
    /\ lastTrigger' = NoTrigger
    /\ UNCHANGED <<kernelId, others_e>>

\* notifyEvent(event, data): it->second(id, data)
notifyEvent(event, data) ==
    IF event \in eventCallbacks_ THEN <<HandlerArgs(kernelId, data)>> ELSE <<>>

\* triggerEvent(event, data)
triggerEvent(event, data) ==
    /\ handlerCalls' = notifyEvent(event, data)
    /\ lastTrigger' = [event |-> event, data |-> data]
    /\ UNCHANGED <<kernelId, eventCallbacks_, others_e>>

EventNext ==
    \/ \E e \in EventNames : setEventCallback(e)
    \/ \E e \in EventNames : removeEventCallback(e)
    \/ \E e \in EventNames, d \in EventData : triggerEvent(e, d)

(***************************************************************************)
(* OrchestrationKernel: enqueueTask, balanceTasks, orchestrate.            *)
(*                                                                         *)
(* The constructor creates platformOptimizer, dynamicCache and threadPool; *)
(* loadBalancer and recoveryManager stay null and no member function sets  *)
(* them.  enqueueTask calls through the null recoveryManager, which is     *)
(* undefined: the call faults or the function goes on.  balanceTasks adds  *)
(* 0.1 through the iterator std::min_element returned; for an empty        *)
(* metrics vector that iterator is end(), and the write is undefined: it   *)
(* faults, or it lands outside the vector and the function goes on.        *)
(* getActiveKernels is not defined in the sources at hand: balanceTasks    *)
(* is given the loads of the kernels it returns.  Loads are in tenths.     *)
(***************************************************************************)
OrkPriorities == {3, 7}

KernelLoads == {0, 5}

UbOutcomes == {"faults", "proceeds"}

\* the kernel lists of orchestrate, by their number of kernels
OrkKernelCounts == 0..MaxOrkKernels

\* the load vectors of balanceTasks: one load per kernel
LoadVectors == UNION {[1..n -> KernelLoads] : n \in 0..MaxOrkKernels}

NoOrk == [op |-> "none", kernels |-> 0, before |-> <<>>, handed |-> <<>>,
          assigned |-> <<>>, loads |-> <<>>, wild |-> FALSE]

\* std::min_element with a.load < b.load: the first least element
minElement(metrics) ==
    CHOOSE i \in 1..Len(metrics) :
        /\ \A j \in 1..Len(metrics) : metrics[i] <= metrics[j]
        /\ \A j \in 1..(i - 1) : metrics[j] > metrics[i]

RECURSIVE assignLoop(_, _, _)
\* the loop of balanceTasks over n descriptors, metrics not empty: the log
\* of the kernels chosen and the loads tracked
assignLoop(metrics, n, log) ==
    IF n = 0 THEN [assigned |-> log, loads |-> metrics]
    ELSE LET idx == minElement(metrics)
         IN  assignLoop([metrics EXCEPT ![idx] = @ + 1], n - 1, Append(log, idx))

\* OrchestrationKernel()
OrkInit ==
    /\ taskDescriptors = <<>>
    /\ orkLoadBalancer = FALSE
    /\ orkState = "live"
    /\ orkCount = 0
    /\ scheduledOnKernel = {}
    /\ lastOrk = NoOrk

\* enqueueTask(data, priority)
enqueueTask(priority, outcome) ==
    /\ orkState = "live"
    /\ orkCount < MaxOrkTasks
    /\ IF outcome = "faults"
       THEN /\ orkState' = "faulted in enqueueTask"
            /\ UNCHANGED <<taskDescriptors, orkCount, lastOrk>>
       ELSE /\ taskDescriptors' = Append(taskDescriptors,
                                         [id |-> orkCount + 1, priority |-> priority])
            /\ orkCount' = orkCount + 1
            /\ lastOrk' = [NoOrk EXCEPT !.op = "enqueueTask", !.before = taskDescriptors]
            /\ UNCHANGED orkState
    /\ UNCHANGED <<orkLoadBalancer, scheduledOnKernel, others_o>>

\* balanceTasks(), getActiveKernels() returning kernels with the given loads;
\* the order std::sort leaves the descriptors in has no effect: the loop
\* body reads only the metrics, and the list is cleared
balanceTasks(metrics, outcome) ==
    /\ orkState = "live"
    /\ IF metrics = <<>> /\ taskDescriptors # <<>>
       THEN IF outcome = "faults"
            THEN /\ orkState' = "faulted in balanceTasks"
                 /\ UNCHANGED <<taskDescriptors, lastOrk>>
            ELSE /\ taskDescriptors' = <<>>
                 /\ lastOrk' = [NoOrk EXCEPT !.op = "balanceTasks",
                                             !.before = taskDescriptors, !.wild = TRUE]
                 /\ UNCHANGED orkState
       ELSE LET r == assignLoop(metrics, Len(taskDescriptors), <<>>)
            IN  /\ taskDescriptors' = <<>>
                /\ lastOrk' = [NoOrk EXCEPT !.op = "balanceTasks",
                                            !.kernels = Len(metrics),
                                            !.before = taskDescriptors,
                                            !.assigned = r.assigned, !.loads = r.loads]
                /\ UNCHANGED orkState
    /\ UNCHANGED <<orkLoadBalancer, orkCount, scheduledOnKernel, others_o>>

\* orchestrate(kernels): returns at once without a load balancer; else
\* balance, which dispatches every descriptor unless kernels or
\* descriptors are empty, and the clear
orchestrate(nk) ==
    /\ orkState = "live"
    /\ IF ~orkLoadBalancer
       THEN /\ lastOrk' = [NoOrk EXCEPT !.op = "orchestrate", !.kernels = nk,
                                        !.before = taskDescriptors]
            /\ UNCHANGED <<taskDescriptors, scheduledOnKernel>>
       ELSE /\ lastOrk' = [NoOrk EXCEPT !.op = "orchestrate", !.kernels = nk,
                                        !.before = taskDescriptors,
                                        !.handed = taskDescriptors]
            /\ scheduledOnKernel' =
                   IF nk = 0 THEN scheduledOnKernel
                   ELSE scheduledOnKernel \cup {taskDescriptors[i].id : i \in 1..Len(taskDescriptors)}
            /\ taskDescriptors' = <<>>
    /\ UNCHANGED <<orkLoadBalancer, orkState, orkCount, others_o>>

OrkNext ==
    \/ \E p \in OrkPriorities, o \in UbOutcomes : enqueueTask(p, o)
    \/ \E m \in LoadVectors, o \in UbOutcomes : balanceTasks(m, o)
    \/ \E nk \in OrkKernelCounts : orchestrate(nk)

(***************************************************************************)
(* CoreKernel: which lock each function holds while it touches             *)
(* pImpl->taskQueue.  scheduleTask(closure, priority), cancelTask and      *)
(* shutdown take kernelMutex in a std::shared_lock; scheduleTask           *)
(* (descriptor) and reset take it in a std::unique_lock; a worker thread   *)
(* takes the lock it builds on pImpl->taskCondition and never kernelMutex. *)
(* shutdownComponents joins the workers before it replaces the queue;      *)
(* qJoined stands for running = false with the workers joined.             *)
(***************************************************************************)
Callers == {"caller1", "caller2"}

QueueThreads == Callers \cup {"worker"}

SharedLockers == {"scheduleTask", "cancelTask", "shutdown"}

UniqueLockers == {"scheduleTaskDescriptor", "reset"}

QIdle == [op |-> "none", pc |-> "idle"]

\* a running kernel with one worker, nobody in a call
QueueInit ==
    /\ qShared = {}
    /\ qUnique = "none"
    /\ qTaskLock = "none"
    /\ qPc = [t \in QueueThreads |-> QIdle]
    /\ qAccess = {}
    /\ qJoined = FALSE

\* a caller enters op and takes kernelMutex as op takes it
qLock(t, op) ==
    /\ qPc[t] = QIdle
    /\ qUnique = "none"
    /\ IF op \in SharedLockers
       THEN /\ qShared' = qShared \cup {t}
            /\ UNCHANGED qUnique
       ELSE /\ qShared = {}
            /\ qUnique' = t
            /\ UNCHANGED qShared
    /\ qPc' = [qPc EXCEPT ![t] = [op |-> op, pc |-> "locked"]]
    /\ UNCHANGED <<qTaskLock, qAccess, qJoined, others_q>>

\* shutdown and reset: stopWorkerThreads returns once the worker is joined
qJoin(t) ==
    /\ qPc[t].pc = "locked"
    /\ qPc[t].op \in {"shutdown", "reset"}
    /\ ~qJoined
    /\ qPc["worker"] = QIdle
    /\ qJoined' = TRUE
    /\ UNCHANGED <<qShared, qUnique, qTaskLock, qPc, qAccess, others_q>>

\* scheduleTask and shutdown on a kernel that is not running: return
qReturn(t) ==
    /\ qPc[t].pc = "locked"
    /\ qPc[t].op \in {"scheduleTask", "scheduleTaskDescriptor", "shutdown"}
    /\ qJoined
    /\ qShared' = qShared \ {t}
    /\ qUnique' = IF qUnique = t THEN "none" ELSE qUnique
    /\ qPc' = [qPc EXCEPT ![t] = QIdle]
    /\ UNCHANGED <<qTaskLock, qAccess, qJoined, others_q>>

\* the push, the rebuild or the replacement of the queue begins
qBegin(t) ==
    /\ qPc[t].pc = "locked"
    /\ qPc[t].op \in {"shutdown", "reset"} => qJoined
    /\ qPc[t].op \in {"scheduleTask", "scheduleTaskDescriptor"} => ~qJoined
    /\ qAccess' = qAccess \cup {t}
    /\ qPc' = [qPc EXCEPT ![t].pc = "access"]
    /\ UNCHANGED <<qShared, qUnique, qTaskLock, qJoined, others_q>>

\* the access ends and the function returns; reset has started new workers
qEnd(t) ==
    /\ qPc[t].pc = "access"
    /\ qAccess' = qAccess \ {t}
    /\ qShared' = qShared \ {t}
    /\ qUnique' = IF qUnique = t THEN "none" ELSE qUnique
    /\ qJoined' = IF qPc[t].op = "reset" THEN FALSE ELSE qJoined
    /\ qPc' = [qPc EXCEPT ![t] = QIdle]
    /\ UNCHANGED <<qTaskLock, others_q>>

\* the worker takes its lock
qWorkerLock ==
    /\ ~qJoined
    /\ qPc["worker"] = QIdle
    /\ qTaskLock = "none"
    /\ qTaskLock' = "worker"
    /\ qPc' = [qPc EXCEPT !["worker"] = [op |-> "pop", pc |-> "locked"]]
    /\ UNCHANGED <<qShared, qUnique, qAccess, qJoined, others_q>>

\* the worker reads top() and pops
qWorkerBegin ==
    /\ qPc["worker"].pc = "locked"
    /\ qAccess' = qAccess \cup {"worker"}
    /\ qPc' = [qPc EXCEPT !["worker"].pc = "access"]
    /\ UNCHANGED <<qShared, qUnique, qTaskLock, qJoined, others_q>>

\* the worker leaves the block and releases its lock
qWorkerEnd ==
    /\ qPc["worker"].pc = "access"
    /\ qAccess' = qAccess \ {"worker"}
    /\ qTaskLock' = "none"
    /\ qPc' = [qPc EXCEPT !["worker"] = QIdle]
    /\ UNCHANGED <<qShared, qUnique, qJoined, others_q>>

QueueNext ==
    \/ \E t \in Callers, op \in SharedLockers \cup UniqueLockers : qLock(t, op)
    \/ \E t \in Callers : qJoin(t)
    \/ \E t \in Callers : qReturn(t)
    \/ \E t \in Callers : qBegin(t)
    \/ \E t \in Callers : qEnd(t)
    \/ qWorkerLock
    \/ qWorkerBegin
    \/ qWorkerEnd

(***************************************************************************)
(* PreloadManager::initialize, called any number of times on one manager   *)
(* (CoreKernel::initializePreloadManager calls it for every kernel the     *)
(* manager is given to).  Each call runs startTaskProcessor, which starts  *)
(* and detaches a new thread; the threads pop under tasksMutex.            *)
(***************************************************************************)
ProcessorSlots == 1..MaxProcessors

\* PreloadManager(config): no thread yet
ProcessorsInit ==
    /\ processors = [t \in ProcessorSlots |-> "none"]
    /\ plTasks = <<>>
    /\ plStop = FALSE
    /\ plCount = 0
    /\ plTaken = <<>>

\* initialize(): a valid configuration, then startTaskProcessor
preloadInitialize ==
    /\ \E t \in ProcessorSlots : processors[t] = "none"
    /\ LET t == CHOOSE x \in ProcessorSlots :
                    processors[x] = "none" /\ \A y \in 1..(x - 1) : processors[y] # "none"
       IN  processors' = [processors EXCEPT ![t] = "wait"]
    /\ UNCHANGED <<plTasks, plStop, plCount, plTaken, others_l>>

\* preloadData(key, data) with room in the queue
preloadEnqueue ==
    /\ plCount < MaxPreloadEntries
    /\ plTasks' = Append(plTasks, plCount + 1)
    /\ plCount' = plCount + 1
    /\ plTaken' = Append(plTaken, {})
    /\ UNCHANGED <<processors, plStop, others_l>>

\* stop()
preloadStop ==
    /\ ~plStop
    /\ plStop' = TRUE
    /\ UNCHANGED <<processors, plTasks, plCount, plTaken, others_l>>

\* a processor thread, under tasksMutex: leave on stop with an empty queue,
\* else pop the front
processorPop(t) ==
    /\ processors[t] = "wait"
    /\ plStop \/ plTasks # <<>>
    /\ IF plStop /\ plTasks = <<>>
       THEN /\ processors' = [processors EXCEPT ![t] = "exited"]
            /\ UNCHANGED <<plTasks, plTaken>>
       ELSE /\ processors' = [processors EXCEPT ![t] = "busy"]
            /\ plTaken' = [plTaken EXCEPT ![Head(plTasks)] = @ \cup {t}]
            /\ plTasks' = Tail(plTasks)
    /\ UNCHANGED <<plStop, plCount, others_l>>

\* processTask returns; the loop tests stop
processorDone(t) ==
    /\ processors[t] = "busy"
    /\ processors' = [processors EXCEPT ![t] = IF plStop THEN "exited" ELSE "wait"]
    /\ UNCHANGED <<plTasks, plStop, plCount, plTaken, others_l>>

ProcessorsNext ==
    \/ preloadInitialize
    \/ preloadEnqueue
    \/ preloadStop
    \/ \E t \in ProcessorSlots : processorPop(t)
    \/ \E t \in ProcessorSlots : processorDone(t)

(***************************************************************************)
(* CacheManager, called by one thread.  pImpl->cacheMutex is a std::mutex. *)
(* getCacheSize locks it; cleanupCache calls getCacheSize in the test of   *)
(* its while loop and getMetrics calls it directly, both from functions    *)
(* that hold the mutex already.  Locking a std::mutex the calling thread   *)
(* owns is undefined: the thread blocks on itself, or lock() throws        *)
(* std::system_error (resource_deadlock_would_occur).  cleanupCache        *)
(* catches std::exception; getMetrics does not.  No entry is older than    *)
(* entryLifetime, so the first loop of cleanupCache removes nothing.       *)
(***************************************************************************)
CmKeys == {"a", "b", "c"}

NoCm == [op |-> "none", result |-> "none", relock |-> FALSE]

CmCall(op, result, relock) == [op |-> op, result |-> result, relock |-> relock]

\* CacheManager(config), config valid
CacheManagerInit ==
    /\ initialized = FALSE
    /\ entries = {}
    /\ cacheMutex = "free"
    /\ cmPc = "idle"
    /\ cmLast = NoCm

\* getCacheSize() called by a function of the thread that holds cacheMutex:
\* whether the call comes back, by an exception
relockReturns(outcome) == outcome = "system_error"

\* cleanupCache() called with cacheMutex held: the test of the while loop
\* calls getCacheSize; an exception ends cleanupCache in its handler
cleanupCacheReturns(outcome) == relockReturns(outcome)

\* initialize()
cmInitialize(outcome) ==
    /\ cmPc = "idle"
    /\ IF initialized
       THEN /\ cmLast' = CmCall("initialize", "false", FALSE)
            /\ UNCHANGED <<initialized, cacheMutex, cmPc>>
       ELSE IF cleanupCacheReturns(outcome)
       THEN /\ initialized' = TRUE
            /\ cmLast' = CmCall("initialize", "true", TRUE)
            /\ UNCHANGED <<cacheMutex, cmPc>>
       ELSE /\ cacheMutex' = "initialize"
            /\ cmPc' = "blocked"
            /\ UNCHANGED <<initialized, cmLast>>
    /\ UNCHANGED <<entries, others_m>>

\* getData(key, data)
cmGetData(key) ==
    /\ cmPc = "idle"
    /\ cmLast' = CmCall("getData",
                        IF initialized /\ key \in entries THEN "true" ELSE "false", FALSE)
    /\ UNCHANGED <<initialized, entries, cacheMutex, cmPc, others_m>>

\* putData(key, data), data within maxSize
cmPutData(key, outcome) ==
    /\ cmPc = "idle"
    /\ IF ~initialized
       THEN /\ cmLast' = CmCall("putData", "false", FALSE)
            /\ UNCHANGED <<entries, cacheMutex, cmPc>>
       ELSE IF Cardinality(entries) < MaxCmEntries
       THEN /\ entries' = entries \cup {key}
            /\ cmLast' = CmCall("putData", "true", FALSE)
            /\ UNCHANGED <<cacheMutex, cmPc>>
       ELSE IF cleanupCacheReturns(outcome)
       THEN /\ entries' = entries \cup {key}
            /\ cmLast' = CmCall("putData", "true", TRUE)
            /\ UNCHANGED <<cacheMutex, cmPc>>
       ELSE /\ cacheMutex' = "putData"
            /\ cmPc' = "blocked"
            /\ UNCHANGED <<entries, cmLast>>
    /\ UNCHANGED <<initialized, others_m>>

\* invalidateData(key)
cmInvalidateData(key) ==
    /\ cmPc = "idle"
    /\ entries' = entries \ {key}
    /\ cmLast' = CmCall("invalidateData", "void", FALSE)
    /\ UNCHANGED <<initialized, cacheMutex, cmPc, others_m>>

\* setConfiguration(config), config valid
cmSetConfiguration(outcome) ==
    /\ cmPc = "idle"
    /\ IF cleanupCacheReturns(outcome)
       THEN /\ cmLast' = CmCall("setConfiguration", "void", TRUE)
            /\ UNCHANGED <<cacheMutex, cmPc>>
       ELSE /\ cacheMutex' = "setConfiguration"
            /\ cmPc' = "blocked"
            /\ UNCHANGED cmLast
    /\ UNCHANGED <<initialized, entries, others_m>>

\* getMetrics(): the exception of the second lock leaves the function
cmGetMetrics(outcome) ==
    /\ cmPc = "idle"
    /\ IF relockReturns(outcome)
       THEN /\ cmLast' = CmCall("getMetrics", "system_error", TRUE)
            /\ UNCHANGED <<cacheMutex, cmPc>>
       ELSE /\ cacheMutex' = "getMetrics"
            /\ cmPc' = "blocked"
            /\ UNCHANGED cmLast
    /\ UNCHANGED <<initialized, entries, others_m>>

CacheManagerNext ==
    \/ \E o \in RelockOutcomes : cmInitialize(o)
    \/ \E k \in CmKeys : cmGetData(k)
    \/ \E k \in CmKeys, o \in RelockOutcomes : cmPutData(k, o)
    \/ \E k \in CmKeys : cmInvalidateData(k)
    \/ \E o \in RelockOutcomes : cmSetConfiguration(o)
    \/ \E o \in RelockOutcomes : cmGetMetrics(o)

(***************************************************************************)
(* Specifications, one per component.                                      *)
(***************************************************************************)
InitKernel == KernelInit /\ RecoveryIdle /\ BalancerInit /\ CacheIdle /\ PreloadIdle /\ ThreadPool({1}) /\ SyncIdle /\ ProcessIdle /\ EventIdle /\ OrkInit /\ QueueInit /\ ProcessorsInit /\ CacheManagerInit

SpecKernel == InitKernel /\ [][KernelNext]_vars

SpecControl == InitKernel /\ [][ControlNext]_vars

InitPool == ThreadPool(1..MaxPoolQueue) /\ KernelIdle /\ RecoveryIdle /\ BalancerInit /\ CacheIdle /\ PreloadIdle /\ SyncIdle /\ ProcessIdle /\ EventIdle /\ OrkInit /\ QueueInit /\ ProcessorsInit /\ CacheManagerInit

SpecPool == InitPool /\ [][PoolNext]_vars

InitShutdown == KernelInit /\ ThreadPool({MaxPoolQueue}) /\ RecoveryIdle /\ BalancerInit /\ CacheIdle /\ PreloadIdle /\ SyncIdle /\ ProcessIdle /\ EventIdle /\ OrkInit /\ QueueInit /\ ProcessorsInit /\ CacheManagerInit

SpecShutdown == InitShutdown /\ [][ShutdownNext]_vars

InitRecovery == RecoveryInit /\ KernelIdle /\ BalancerInit /\ CacheIdle /\ PreloadIdle /\ ThreadPool({1}) /\ SyncIdle /\ ProcessIdle /\ EventIdle /\ OrkInit /\ QueueInit /\ ProcessorsInit /\ CacheManagerInit

SpecRecovery == InitRecovery /\ [][RecoveryNext]_vars

InitBalancer == BalancerInit /\ KernelIdle /\ RecoveryIdle /\ CacheIdle /\ PreloadIdle /\ ThreadPool({1}) /\ SyncIdle /\ ProcessIdle /\ EventIdle /\ OrkInit /\ QueueInit /\ ProcessorsInit /\ CacheManagerInit

SpecBalancer == InitBalancer /\ [][BalancerNext]_vars

InitLRU == DynamicCache({0}) /\ KernelIdle /\ RecoveryIdle /\ BalancerInit /\ PreloadIdle /\ ThreadPool({1}) /\ SyncIdle /\ ProcessIdle /\ EventIdle /\ OrkInit /\ QueueInit /\ ProcessorsInit /\ CacheManagerInit

SpecLRU == InitLRU /\ [][LRUNext]_vars

InitTTL == DynamicCache(TtlChoices) /\ KernelIdle /\ RecoveryIdle /\ BalancerInit /\ PreloadIdle /\ ThreadPool({1}) /\ SyncIdle /\ ProcessIdle /\ EventIdle /\ OrkInit /\ QueueInit /\ ProcessorsInit /\ CacheManagerInit

SpecTTL == InitTTL /\ [][TTLNext]_vars

InitSync == SyncInit /\ KernelIdle /\ RecoveryIdle /\ BalancerInit /\ CacheIdle /\ PreloadIdle /\ ThreadPool({1}) /\ ProcessIdle /\ EventIdle /\ OrkInit /\ QueueInit /\ ProcessorsInit /\ CacheManagerInit

SpecSync == InitSync /\ [][SyncNext]_vars

InitProcess == ProcessInit /\ KernelIdle /\ RecoveryIdle /\ BalancerInit /\ CacheIdle /\ PreloadIdle /\ ThreadPool({1}) /\ SyncIdle /\ EventIdle /\ OrkInit /\ QueueInit /\ ProcessorsInit /\ CacheManagerInit

SpecProcess == InitProcess /\ [][ProcessNext]_vars

InitEvents == EventInit /\ KernelIdle /\ RecoveryIdle /\ BalancerInit /\ CacheIdle /\ PreloadIdle /\ ThreadPool({1}) /\ SyncIdle /\ ProcessIdle /\ OrkInit /\ QueueInit /\ ProcessorsInit /\ CacheManagerInit

SpecEvents == InitEvents /\ [][EventNext]_vars

InitOrk == OrkInit /\ KernelIdle /\ RecoveryIdle /\ BalancerInit /\ CacheIdle /\ PreloadIdle /\ ThreadPool({1}) /\ SyncIdle /\ ProcessIdle /\ EventIdle /\ QueueInit /\ ProcessorsInit /\ CacheManagerInit

SpecOrk == InitOrk /\ [][OrkNext]_vars

InitQueue == QueueInit /\ KernelIdle /\ RecoveryIdle /\ BalancerInit /\ CacheIdle /\ PreloadIdle /\ ThreadPool({1}) /\ SyncIdle /\ ProcessIdle /\ EventIdle /\ OrkInit /\ ProcessorsInit /\ CacheManagerInit

SpecQueue == InitQueue /\ [][QueueNext]_vars

InitProcessors == ProcessorsInit /\ KernelIdle /\ RecoveryIdle /\ BalancerInit /\ CacheIdle /\ PreloadIdle /\ ThreadPool({1}) /\ SyncIdle /\ ProcessIdle /\ EventIdle /\ OrkInit /\ QueueInit /\ CacheManagerInit

SpecProcessors == InitProcessors /\ [][ProcessorsNext]_vars

InitCacheManager == CacheManagerInit /\ KernelIdle /\ RecoveryIdle /\ BalancerInit /\ CacheIdle /\ PreloadIdle /\ ThreadPool({1}) /\ SyncIdle /\ ProcessIdle /\ EventIdle /\ OrkInit /\ QueueInit /\ ProcessorsInit

SpecCacheManager == InitCacheManager /\ [][CacheManagerNext]_vars

InitPreload == PreloadInit /\ KernelIdle /\ RecoveryIdle /\ BalancerInit /\ ThreadPool({1}) /\ SyncIdle /\ ProcessIdle /\ EventIdle /\ OrkInit /\ QueueInit /\ ProcessorsInit /\ CacheManagerInit

SpecPreload == InitPreload /\ [][PreloadNext]_vars

(***************************************************************************)
(* Claims about the recovery manager.                                      *)
(* lastOp describes the last operation; for a restore, captureCalled says  *)
(* that the operation just before it was the createRecoveryPoint that      *)
(* returned this id and that it called the state-capture callback, which   *)
(* returned appState.                                                      *)
(***************************************************************************)
\* C3: when the state-capture callback returned the (non-empty) bytes S,
\* create_recovery_point followed immediately by restore_from_point of the
\* returned id returns true and hands the state-restore callback (which
\* accepts it) exactly S.
C3_RoundTrip ==
    (/\ lastOp.op = "restore"
     /\ lastOp.captureCalled
     /\ lastOp.accepts
     /\ appState # <<>>)
        => (lastOp.result /\ lastOp.called /\ lastOp.handed = appState)

\* C10: restore_from_point never calls the state-restore callback with bytes
\* whose SHA-256 differs from the checksum stored in the loaded record (a
\* record that holds a digest): on a mismatch the callback is not called.
C10_ChecksumGuardsRestore ==
    (lastOp.op = "restore" /\ lastOp.called /\ lastOp.stored # EmptyChecksum)
        => calculateChecksum(lastOp.handed) = lastOp.stored

\* C11: restore_from_point returns true only when every step succeeded
\* (loading the record, decompression when enabled, validation when enabled,
\* the state-restore callback); when a step fails it returns false and the
\* error callback is invoked.
C11_RestoreFailsOnAnyStep ==
    lastOp.op = "restore" =>
        /\ lastOp.result <=> lastOp.stepsOk
        /\ ~lastOp.result => lastOp.errorFired

\* C12: at every instant the file {id}.json either does not exist or holds
\* a complete record, also while create_recovery_point is running, and a
\* concurrent restore_from_point never reads a partially written record.
C12_CheckpointFileAtomic ==
    /\ \A id \in PointIds : files[id].exists => files[id].complete
    /\ lastOp.op = "restore" => ~lastOp.sawPartial

\* the recovery points the manager retains: those in its table and those
\* whose record restore_from_point can load
RetainedPoints == recoveryPoints \cup {id \in PointIds : files[id].complete}

\* C13: after any sequence of create_recovery_point calls the number of
\* recovery points retained never exceeds maxRecoveryPoints (the oldest are
\* evicted to respect the bound).
C13_RetentionBound ==
    lastOp.op = "create" => Cardinality(RetainedPoints) <= maxRecoveryPoints

(***************************************************************************)
(* Claims about the load balancer.                                         *)
(***************************************************************************)
\* C4: after set_resource_weights(a, b, c, d) with non-negative inputs that
\* are not all zero, the four stored weights sum to 1 (100 in units of 1/100).
C4_WeightsSumToOne ==
    lastCall.op = "setResourceWeights"
        => weights.cpu + weights.memory + weights.network + weights.energy = 100

\* C9: HybridAdaptive with the default weights and thresholds, two kernels
\* with (cpuUsage, memoryUsage) = (0.95, 0.3) and (0.2, 0.4) and all other
\* metrics equal, one MIXED task: the task is dispatched to kernel index 1.
C9_ResourcePathPicksKernelOne ==
    (/\ lastCall.op = "balance"
     /\ lastCall.strategyBefore = "HybridAdaptive"
     /\ weights = DefaultWeights
     /\ thresholds = DefaultThresholds
     /\ lastCall.kernels = 2
     /\ lastCall.metrics = <<Metric(95, 30, 40), Metric(20, 40, 40)>>
     /\ lastCall.tasks = <<Task("MIXED", 5, 0)>>)
        => (Len(lastCall.dispatched) = 1 /\ lastCall.dispatched[1].kernel = 1)

\* the average cpuUsage or the average memoryUsage over metrics exceeds 0.9
HotMetrics(metrics) ==
    LET n == Len(metrics)
    IN \/ SumOf([i \in 1..n |-> metrics[i].cpuUsage], n) > 90 * n
       \/ SumOf([i \in 1..n |-> metrics[i].memoryUsage], n) > 90 * n

\* what C24 says of the strategy after a balance call with these metrics
StrategyAsClaimed(metrics) ==
    IF HotMetrics(metrics)
    THEN /\ lastCall.strategyBefore = "ResourceAware" =>
                (strategyEnum = "WorkloadSpecific" /\ strategy = "workload_specific")
         /\ lastCall.strategyBefore = "WorkloadSpecific" =>
                (strategyEnum = "ResourceAware" /\ strategy = "resource_aware")
    ELSE strategyEnum = lastCall.strategyBefore

DispatchedTasks == [i \in 1..Len(lastCall.dispatched) |-> lastCall.dispatched[i].task]

\* C25: within one balance call every task with priority >= 7 is dispatched
\* before any task with priority < 7, and within each of the two groups
\* the tasks are dispatched in their input order (a call without kernels,
\* or with metrics that do not match them, dispatches nothing).
C25_HighFirstInInputOrder ==
    LET IsHigh(t) == t.priority >= 7
        IsLow(t) == t.priority < 7
        d == DispatchedTasks
    IN (/\ lastCall.op = "balance"
        /\ lastCall.kernels >= 1
        /\ Len(lastCall.metrics) = lastCall.kernels) =>
           /\ \A i, j \in 1..Len(d) : (i < j /\ IsLow(d[i])) => IsLow(d[j])
           /\ SelectSeq(d, IsHigh) = SelectSeq(lastCall.tasks, IsHigh)
           /\ SelectSeq(d, IsLow) = SelectSeq(lastCall.tasks, IsLow)

\* a call whose input has a low task before a high one: the high one went first
C25_Witness ==
    /\ lastCall.op = "balance"
    /\ lastCall.tasks = <<Task("MIXED", 5, 0), Task("CPU_INTENSIVE", 8, 0)>>
    /\ Len(lastCall.dispatched) = 2
    /\ lastCall.dispatched[1].task = Task("CPU_INTENSIVE", 8, 0)

\* C26: in a balance call with at least one task and |metrics| = |kernels|
\* >= 1, under every strategy each task is dispatched exactly once, to
\* kernels[i] with 0 <= i < |kernels|, with the task's own priority.
C26_EachTaskDispatchedOnce ==
    (/\ lastCall.op = "balance"
     /\ lastCall.tasks # <<>>
     /\ lastCall.kernels >= 1
     /\ Len(lastCall.metrics) = lastCall.kernels)
        => /\ Len(lastCall.dispatched) = Len(lastCall.tasks)
           /\ \A t \in TaskProfiles :
                  Cardinality({i \in 1..Len(DispatchedTasks) : DispatchedTasks[i] = t})
                    = Cardinality({i \in 1..Len(lastCall.tasks) : lastCall.tasks[i] = t})
           /\ \A i \in 1..Len(lastCall.dispatched) :
                  /\ lastCall.dispatched[i].kernel \in 0..(lastCall.kernels - 1)
                  /\ lastCall.dispatched[i].priority = lastCall.dispatched[i].task.priority

\* two tasks dispatched over two kernels under a strategy that balance has
\* no case for, one of them to the last kernel
C26_Witness ==
    /\ lastCall.op = "balance"
    /\ lastCall.strategyBefore = "RoundRobin"
    /\ lastCall.kernels = 2
    /\ Len(lastCall.metrics) = 2
    /\ Len(lastCall.dispatched) = 2
    /\ lastCall.dispatched[2].kernel = 1

\* C27: setStrategy with a name that is not a recognised strategy name
\* falls back to HybridAdaptive: the getters report HybridAdaptive, which
\* is then the strategy balance selects with.
C27_UnknownNameFallsBack ==
    (/\ lastCall.op = "setStrategyByName"
     /\ strategy \notin {"resource_aware", "workload_specific", "least_loaded",
                          "round_robin"})
        => (strategyEnum = "HybridAdaptive" /\ strategy = "hybrid_adaptive")

(***************************************************************************)
(* Claims about the kernel's task queue.                                   *)
(***************************************************************************)
StartedIds == {startLog[i].id : i \in 1..Len(startLog)}

\* C1: any two tasks of the same priority are started in the order in which
\* they were enqueued (tasks are numbered in enqueue order).
C1_FifoWithinPriority ==
    \A i, j \in 1..Len(startLog) :
        (i < j /\ prio[startLog[i].id] = prio[startLog[j].id])
            => startLog[i].id < startLog[j].id

\* C2: on a kernel with a single worker, every task the worker picks has the
\* highest priority among the tasks queued at that moment; tasks with
\* priorities 1, 9, 5 that are all queued before the first start are started
\* in the order T2, T3, T1; and a task is started only after every task
\* started before it has returned (a running task is never preempted).
C2_HighestPriorityFirst ==
    numThreads = 1 =>
        /\ \A i \in 1..Len(startLog) :
              /\ startLog[i].id \in startLog[i].queued
              /\ prio[startLog[i].id] = SetMax({prio[t] : t \in startLog[i].queued})
        /\ (/\ Len(startLog) = 3
            /\ prio = <<1, 9, 5>>
            /\ startLog[1].queued = {1, 2, 3})
               => [i \in 1..3 |-> startLog[i].id] = <<2, 3, 1>>
        /\ \A i \in 1..Len(startLog) :
              /\ i < Len(startLog) => startLog[i].id \in finished
              /\ startLog[i].id \in finished \/ wtask[1] = startLog[i].id
              /\ startLog[i].id \notin QueuedIds(taskQueue)

\* the three tasks of the scenario were queued together and all have started,
\* the last one while a fourth, more urgent task is already waiting
C2_Witness ==
    /\ numThreads = 1
    /\ Len(startLog) = 3
    /\ SubSeq(prio, 1, 3) = <<1, 9, 5>>
    /\ startLog[1].queued = {1, 2, 3}
    /\ wpc[1] = "run"
    /\ Len(taskQueue) = 1
    /\ HeapTop(taskQueue).priority = 9

\* C14: once cancelTask(taskId) has returned, a task with that id that was
\* still queued is never started by a worker.
C14_CancelledNeverStarted == cancelledQueued \cap StartedIds = {}

\* C15: while the kernel is paused no worker starts a queued task.
C15_NoStartWhilePaused == \A i \in 1..Len(startLog) : ~startLog[i].paused

\* C16: reset() on a running kernel ends as shutdown() followed by
\* initialize() does: the kernel is running, the task queue is empty and
\* the workers are started.
C16_ResetAsShutdownInitialize ==
    [][(kpc = "reset" /\ kpc' = "idle" /\ lastCtl = "resetRunning") =>
           /\ running'
           /\ taskQueue' = <<>>
           /\ \A w \in Workers : w <= numThreads => wpc'[w] = "check"]_vars

C18_NoWorkerBlockedAfterStop ==
    /\ kpc = "shutdown" => \A w \in Workers : wpc[w] # "asleep"
    /\ tpCtl = "stopJoin" => \A w \in Workers : tpWorker[w] # "asleep"

\* C19: after stop() has marked the pool stopped, no closure that was
\* still queued at that moment is ever started.
C19_QueuedAtStopDiscarded == tpQueuedAtStop \cap tpStarted = {}

\* C20: enqueue on a pool whose queue holds queueSize closures fails with
\* the queue-full error and leaves the queue unchanged, and the queue
\* length never exceeds queueSize.
C20_EnqueueFullFails ==
    /\ [][(enqueue /\ Len(tpTasks) >= tpQueueSize) =>
             (tpLast' = "full" /\ tpTasks' = tpTasks)]_vars
    /\ [](Len(tpTasks) <= tpQueueSize)

\* C21: waitForCompletion returns only in a state in which the queue is
\* empty and no worker holds a closure it has popped and not yet finished.
C21_WaitReturnsWhenIdle ==
    [][(wfc # "returned" /\ wfc' = "returned") =>
           /\ tpTasks = <<>>
           /\ \A w \in Workers : tpWorker[w] \notin {"taken", "run"}]_vars

\* C22: a caller of waitForCompletion does not stay blocked once the queue
\* is empty and the active worker count is 0. In a pool where nothing is
\* queued, no worker holds a closure and no stop is in progress, no step
\* that notifies remains to be taken, so the caller must not be blocked.
C22_WaiterNotLeftBlocked ==
    ~(/\ wfc = "asleep"
      /\ tpTasks = <<>>
      /\ activeThreads = 0
      /\ \A w \in Workers : tpWorker[w] \in {"wait", "asleep"}
      /\ tpCtl = "idle")

\* C23: when a closure run by a worker fails, the pool survives: the worker
\* goes back to the head of its loop, no worker is lost, and the active
\* worker count loses the one the closure accounted for.
C23_PoolSurvivesFailure ==
    [][\A w \in Workers :
           (tpWorker[w] = "run" /\ tpWorker'[w] # "run"
            /\ tpLast' \in {"caught", "terminated"}) =>
               /\ tpWorker'[w] = "wait"
               /\ \A x \in Workers \ {w} : tpWorker'[x] = tpWorker[x]
               /\ activeThreads' = activeThreads - 1]_vars


(***************************************************************************)
(* Claims about the dynamic cache.                                         *)
(***************************************************************************)
\* the n keys most recently put or got
MostRecent(n) == Range(SubSeq(recency, 1, n))

\* C6: in a cache of capacity C without TTL, once more than C distinct keys
\* have been put (gets interleaved at will), size() is C, the resident keys
\* are exactly the C keys most recently put or got, and a get finds a key
\* iff it is one of them (capacity 4, put a,b,c,d; get a; put e leaves
\* {a,c,d,e} and get(b) is absent).
C6_LruResidents ==
    Len(recency) > allocatedSize_ =>
        /\ size = allocatedSize_
        /\ DOMAIN cache_ = MostRecent(allocatedSize_)
        /\ Range(lruList_) = DOMAIN cache_
        /\ lastGet.op = "get" => (lastGet.hit <=> lastGet.key \in MostRecent(allocatedSize_))

\* the example of C6: capacity 4, a,b,c,d put, a got, e put, and b got in vain
C6_Witness ==
    /\ allocatedSize_ = 4
    /\ recency = <<"e", "a", "d", "c", "b">>
    /\ DOMAIN cache_ = {"a", "c", "d", "e"}
    /\ lastGet.op = "get" /\ lastGet.key = "b" /\ ~lastGet.hit

\* C7: a get(k) at a time t >= put_time(k) + ttl, for an entry put with
\* ttl > 0, returns absent, whether or not k was read in between, and the
\* entry is no longer in the cache after it.
C7_ExpiredGetAbsent ==
    (/\ lastGet.op = "get"
     /\ putInfo[lastGet.key].ttlSeconds > 0
     /\ lastGet.time >= putInfo[lastGet.key].time + putInfo[lastGet.key].ttlSeconds)
    => (~lastGet.hit /\ lastGet.key \notin DOMAIN cache_)

(***************************************************************************)
(* Claims about the preload warm-up.                                       *)
(***************************************************************************)
\* C8: when warmupFromPreload has completed, the kernel cache (whose capacity
\* is at least the number of keys) returns, for every key the preload
\* manager had been given before the warm-up with a (non-empty) payload,
\* exactly that payload, also when the task processor has dequeued entries
\* meanwhile.
C8_WarmupExactPayloads ==
    wpos = "done" =>
        \A k \in PreloadKeys :
            (wgiven[k] # NoData /\ wgiven[k] # <<>>) =>
                (k \in DOMAIN cache_ /\ cache_[k].data = wgiven[k])

\* the number of entries of cache c
sizeOf(c) == Cardinality(DOMAIN caches[c].cache)

\* C28: after every cache operation (put, batchPut, resize, syncWith,
\* migrateTo) the number of entries of each cache is at most its
\* allocatedSize, resize(n) leaves allocatedSize = n, and a put into a cache
\* with room for an entry leaves the key resident: it evicts, it does not fail.
C28_SizeWithinAllocated ==
    /\ \A c \in CacheIds :
           /\ sizeOf(c) <= caches[c].allocatedSize
           /\ Range(caches[c].lru) = DOMAIN caches[c].cache
           /\ Len(caches[c].lru) = sizeOf(c)
    /\ (lastSync.op = "put" /\ caches[lastSync.cache].allocatedSize >= 1) =>
           lastSync.key \in DOMAIN caches[lastSync.cache].cache

\* a resize below the current size has evicted down to the new size
C28_Witness ==
    /\ lastSync.op = "resize"
    /\ lastSync.cache = 1
    /\ lastSync.before = 2
    /\ caches[1].allocatedSize = 1
    /\ sizeOf(1) = 1

\* thread t waits for a lock that another thread holds
lockWait(t) ==
    /\ syncOp[t].pc \in {"first", "second"}
    /\ mutex_[nextLock(t)] \notin {NoThread, t}

\* C29: threads that run syncWith and migrateTo on the same two caches in
\* opposite directions never wait for each other: whenever a thread is in
\* such an operation, some thread in an operation can take its next step.
C29_NoCircularWait ==
    (\E t \in SyncThreads : syncOp[t].pc # "idle") =>
        \E t \in SyncThreads : syncOp[t].pc # "idle" /\ ~lockWait(t)

\* thread 1 is in a.syncWith(b) and holds both locks while thread 2, in
\* b.migrateTo(a), waits for its first lock
C29_Witness ==
    /\ syncOp[1] = [op |-> "syncWith", self |-> 1, other |-> 2, pc |-> "copy"]
    /\ syncOp[2] = [op |-> "migrateTo", self |-> 2, other |-> 1, pc |-> "first"]
    /\ lockWait(2)

\* C30: on an initialized kernel with a TaskCallback installed,
\* processTask(d) returns, returns true, and has invoked the callback exactly
\* once, with d.
C30_ProcessTaskSucceeds ==
    (ptRunning /\ taskCallback_ /\ ptPc \in {"blocked", "returned"}) =>
        /\ ptPc = "returned"
        /\ ptResult = "true"
        /\ callbackLog = <<ptTask>>

\* C31: a handler registered for event E is invoked by triggerEvent(E, data)
\* exactly once, with E as its first argument and data as its second.
C31_HandlerGetsEventName ==
    (lastTrigger # NoTrigger /\ lastTrigger.event \in eventCallbacks_) =>
        handlerCalls = <<HandlerArgs(lastTrigger.event, lastTrigger.data)>>

\* C32: an operation on a component that is not running is rejected with
\* an error and changes no state; for the thread pool: an enqueue on a pool
\* that stop() has marked stopped returns an error and queues nothing.
C32_StoppedPoolRejects ==
    [][(enqueue /\ tpStop) =>
           (tpLast' # "enqueued" /\ tpTasks' = tpTasks /\ tpCount' = tpCount)]_vars

\* C33: after orchestrate(kernels) returns, the local descriptor list is
\* empty and every descriptor that was in it has been handed to the load
\* balancer.
C33_OrchestrateHandsOver ==
    lastOrk.op = "orchestrate" =>
        (taskDescriptors = <<>> /\ lastOrk.handed = lastOrk.before)

\* C34: balanceTasks completes without fault for any descriptors and any
\* kernels; without kernels it assigns nothing and writes to no tracked
\* load; in every case it leaves the descriptor list empty.
C34_BalanceTasksTotal ==
    /\ orkState # "faulted in balanceTasks"
    /\ lastOrk.op = "balanceTasks" =>
           /\ taskDescriptors = <<>>
           /\ lastOrk.kernels = 0 => (lastOrk.assigned = <<>> /\ ~lastOrk.wild)

\* C38: no descriptor accepted by enqueueTask leaves the descriptor list
\* without having been scheduled on some kernel.
C38_NoDescriptorLost ==
    \A id \in 1..orkCount :
        (\E i \in 1..Len(taskDescriptors) : taskDescriptors[i].id = id)
        \/ id \in scheduledOnKernel

\* C35: pImpl->taskQueue is never accessed by two threads at the same
\* time: pushes, rebuilds, replacements and pops exclude one another.
C35_QueueAccessExclusive == Cardinality(qAccess) <= 1

\* C36: a push wakes a worker that waits for work: while the kernel runs
\* and a task is queued, the workers are not all blocked in their wait, so
\* no task stays queued while the workers are idle.
C36_QueuedTaskHasAwakeWorker ==
    (running /\ ~paused /\ taskQueue # <<>> /\ \E w \in Workers : wpc[w] = "asleep") =>
        \E w \in Workers : wpc[w] \in {"check", "wait", "dozing", "run"}

\* C37: balance switches the strategy only between ResourceAware and
\* WorkloadSpecific: after a balance call on a balancer whose strategy was
\* HybridAdaptive, LeastLoaded, RoundRobin or PriorityAdaptive the strategy
\* is the one it was, whatever the metrics.
C37_OtherStrategiesKept ==
    (lastCall.op = "balance"
     /\ lastCall.strategyBefore \in {"HybridAdaptive", "LeastLoaded", "RoundRobin",
                                      "PriorityAdaptive"}) =>
        strategyEnum = lastCall.strategyBefore

\* C39: a preload manager has at most one background worker at any time,
\* however many times initialize is called, and each queued entry is
\* dequeued by at most one worker.
C39_SingleBackgroundWorker ==
    /\ Cardinality({t \in ProcessorSlots : processors[t] \in {"wait", "busy"}}) <= 1
    /\ \A e \in 1..Len(plTaken) : Cardinality(plTaken[e]) <= 1

\* C40: every public CacheManager operation returns when called by a
\* single thread: no operation tries to take cacheMutex while the calling
\* thread holds it.
C40_NoSelfLock == cmPc # "blocked" /\ ~cmLast.relock
====
